---- MODULE Spec2Model ----
(***************************************************************************)
(* State-machine model of the api-gateway policy pipeline:                 *)
(*   - token-bucket limiter   (middleware/rate-limiter/factories)          *)
(*   - fixed-window limiter   (middleware/rate-limiter/factories)          *)
(*   - reputation gate        (middleware/reputation.middleware.ts)        *)
(*   - policy gate            (middleware/geoPolicy.middleware.ts)         *)
(*   - pipeline composition   (app.ts, routes/index.ts)                    *)
(* The shared store (Redis) is modelled by the variables the commands act  *)
(* on; every store command is one atomic step, every await is a point at   *)
(* which other requests may run.                                           *)
(***************************************************************************)
EXTENDS Integers, Sequences, FiniteSets, TLC

\* ------------------------------------------------------------------------
\* Bounds of the model
\* ------------------------------------------------------------------------
\* number of concurrently served requests (workers)
NumWorkers == 2
\* the wall clock runs from 1 to MaxTime ticks
MaxTime == 3
\* total number of limiter steps started in one behaviour
MaxRequests == 3
\* clock ticks per second; token balances are kept in units of
\* 1/TicksPerSecond token so that elapsed * refillRate stays exact
TicksPerSecond == 2
\* capacity (tokens) and refill rate (tokens per second) of the bucket
Capacity == 2
RefillRate == 1
\* limit (requests) and window length (seconds) of the fixed window
Limit == 2
WindowSeconds == 1
\* admin mutations and failing reloads in one behaviour
MaxMutations == 2
MaxReloadFailures == 1
MaxPipeRequests == 1
MaxRepRequests == 2
\* api-key limiter steps and config operations in one behaviour
MaxCfgSteps == 2
MaxCfgOps == 1

Workers == 1..NumWorkers

Min(a, b) == IF a < b THEN a ELSE b
Max(a, b) == IF a > b THEN a ELSE b

\* ------------------------------------------------------------------------
\* Program constants
\* ------------------------------------------------------------------------
\* ttlSeconds of the bucket hash
TtlSeconds == 3600
\* RateLimitController.getConfig: process.env.DEFAULT_CAPACITY || '100' and
\* process.env.DEFAULT_REFILL_RATE || '1'
DEFAULT_CAPACITY == 100
DEFAULT_REFILL_RATE == 1
\* config.reputation.cacheTtl, used as SET ... EX (seconds)
CACHE_TTL == 3600
\* config.reputation.lockTtl, used as SET ... PX (milliseconds)
LOCK_TTL == 10
\* config.reputation.blockThreshold
REPUTATION_BLOCK_THRESHOLD == 50

VARIABLES
  now,        \* wall clock of the store and of every worker, in ticks
  bucket,     \* token-bucket hash: [present, tokens, lastRefillTime, expireAt]
  tb,         \* per worker: position in the token-bucket handler and its locals
  tbLog,      \* decisions of finished token-bucket steps, in completion order
  tbStarted,  \* number of token-bucket steps started
  tbOverlap,  \* TRUE once a step started while another one was in flight
  tbWrites    \* number of HMSETs applied to the hash (names the stored state)

VARIABLES
  counter,    \* fixed-window counter key: [present, n, expireAt]
  fw,         \* per worker: position in the fixed-window handler and its locals
  fwLog,      \* decisions of finished fixed-window steps, in completion order
  fwStarted,  \* number of fixed-window steps started
  fwCreated   \* clock values at which a first hit created the counter key

VARIABLES
  repCache,   \* reputation cache key of the IP: [present, value, expireAt]
  repLock,    \* single-flight lock key of the IP: [present, owner, expireAt]
  rep,        \* per worker: position in the reputation gate and its locals
  repStarted  \* number of reputation-gate invocations started

VARIABLES
  ipWhitelist,      \* SecurityPolicyService.ipWhitelist (in memory)
  ipBlacklist,      \* SecurityPolicyService.ipBlacklist (in memory)
  cidrBlacklist,    \* SecurityPolicyService.cidrBlacklist (in memory, a list)
  countryBlocklist, \* SecurityPolicyService.countryBlocklist (in memory)
  pol,              \* per worker: the last decision of the policy gate
  instance          \* TRUE once SecurityPolicyService.instance is set

VARIABLES
  request      \* the incoming request the IP resolver works on

VARIABLES
  leaky,       \* bucket JSON key of acquireToken: [present, tokens, lastRefill, expireAt]
  acq,         \* per worker: position in createRateLimitMiddleware and its locals
  acqStarted   \* number of acquireToken steps started

VARIABLES
  rlConfig,    \* field of the rl:config hash for the API key (the stored text)
  kb,          \* token-bucket hash of the API key: [present, tokens, lastRefillTime]
  ak,          \* per worker: position in apiKeyRateLimiterMiddleware and its locals
  akStarted,   \* number of api-key limiter steps started
  admin,       \* the last config operation and what it returned
  cfgOps,      \* number of config operations completed
  got          \* what the last config read returned, and after which operation

VARIABLES
  keyspace,    \* token-bucket hashes of the store, by key:
               \* [present, tokens, lastRefillTime]
  sc,          \* per worker: position in a scoped token-bucket step and its locals
  scStarted    \* number of scoped token-bucket steps started

VARIABLES
  store,          \* the four policy sets of the shared store
  proc,           \* the replica: "boot", "loaded", "subscribed" or "dead"
  reloads,        \* reloadAll invocations in flight, oldest first
  reloadCount,    \* number of reloadAll invocations started
  installedBy,    \* per in-memory list: the reload that assigned it last
  pendingPublish, \* admin mutations written whose publish is still to come:
                  \* for each, whether its SADD or SREM changed the set
  published,      \* number of PUBLISH commands the store has executed
  mutators,       \* calls of the service's mutators: [list, elem, add, done]
  mutations,      \* number of admin mutations started
  failures        \* number of reloads that failed

VARIABLES
  pipe,        \* per worker: the request in the pipeline and the stage it is at
  pipeStarted  \* number of requests that entered the pipeline

tbVars == <<bucket, tb, tbLog, tbStarted, tbOverlap, tbWrites>>
fwVars == <<counter, fw, fwLog, fwStarted, fwCreated>>
repVars == <<repCache, repLock, rep, repStarted>>
snapshotVars == <<ipWhitelist, ipBlacklist, cidrBlacklist, countryBlocklist>>
polVars == <<snapshotVars, pol, instance>>
pipeVars == <<pipe, pipeStarted>>
resVars == <<request>>
acqVars == <<leaky, acq, acqStarted>>
cfgVars == <<rlConfig, kb, ak, akStarted, admin, cfgOps, got>>
scVars == <<keyspace, sc, scStarted>>
reloadVars == <<store, proc, reloads, reloadCount, installedBy, pendingPublish,
                published, mutators, mutations, failures>>

\* what a step of one subsystem leaves alone
NotTB == <<fwVars, repVars, polVars, pipeVars, resVars, reloadVars, acqVars, cfgVars,
          scVars>>
NotFW == <<tbVars, repVars, polVars, pipeVars, resVars, reloadVars, acqVars, cfgVars,
          scVars>>
NotRep == <<tbVars, fwVars, polVars, pipeVars, resVars, reloadVars, acqVars, cfgVars,
           scVars>>
NotPol == <<tbVars, fwVars, repVars, pipeVars, resVars, reloadVars, acqVars, cfgVars,
           scVars>>
NotPipe == <<fwVars, resVars, reloadVars, acqVars, cfgVars, scVars>>
NotReload == <<now, pol, instance, tbVars, fwVars, repVars, pipeVars, resVars,
               acqVars, cfgVars, scVars>>
NotCfg == <<tbVars, fwVars, repVars, polVars, pipeVars, resVars, reloadVars,
            acqVars, scVars>>
NotAcq == <<tbVars, fwVars, repVars, polVars, pipeVars, resVars, reloadVars, cfgVars,
           scVars>>
NotSc == <<tbVars, fwVars, repVars, polVars, pipeVars, resVars, reloadVars, acqVars,
          cfgVars>>

\* ------------------------------------------------------------------------
\* Token bucket  (tokenBucketMiddlewareFactory)
\* ------------------------------------------------------------------------
\* A hash that does not exist: HMGET returns null for both fields.
NoBucket == [present |-> FALSE, tokens |-> 0, lastRefillTime |-> 0, expireAt |-> 0]

\* A key with a TTL is gone once the clock has reached its expiry.
Expired(k, t) == k.present /\ k.expireAt # 0 /\ t >= k.expireAt

\* `Number(str) || dflt`: null, "0" and NaN all fall back to the default.
NumberOr(v, dflt) == IF v = 0 THEN dflt ELSE v

\* newTokens = Math.min(capacity, tokens + elapsedSeconds * refillRate),
\* in units of 1/TicksPerSecond token; elapsed is in ticks.
NewTokens(capacity, tokens, elapsed, refillRate) ==
  Min(capacity * TicksPerSecond, tokens + elapsed * refillRate)

\* one whole token, in balance units
OneToken == TicksPerSecond

\* a rejection test that lets a fraction of a token pay for a request
BucketEmptyLenient(newTokens) == newTokens < 0

\* line 222: newTokens < 1
BucketEmpty(newTokens) == newTokens < OneToken

\* Math.floor of a non-negative balance, in whole tokens
FloorTokens(t) == t \div TicksPerSecond

TbIdle == [pc |-> "idle", now |-> 0, newTokens |-> 0, seen |-> 0, status |-> 0]

\* a rejection that stamps the refill time into the hash
RejectedBucketStamped(b, t) == [b EXCEPT !.lastRefillTime = t]

\* lines 222-236: the 429 branch returns before HMSET and EXPIRE; the hash
\* is what it was
RejectedBucket(b, t) == b

\* lines 175-206: resolve id, capacity, refillRate; take `now`
TBEnter(w) ==
  /\ tb' = [tb EXCEPT ![w] = [TbIdle EXCEPT !.pc = "hmget", !.now = now]]
  /\ tbStarted' = tbStarted + 1
  /\ tbOverlap' = (tbOverlap \/ \E v \in Workers : v # w /\ tb[v].pc # "idle")

TBBegin(w) ==
  /\ tb[w].pc = "idle"
  /\ tbStarted < MaxRequests
  /\ TBEnter(w)
  /\ UNCHANGED <<now, bucket, tbLog, tbWrites, NotTB>>

\* lines 209-236: HMGET, refill computation, rejection with 429
TBHmget(w) ==
  /\ tb[w].pc = "hmget"
  /\ LET tokens     == NumberOr(bucket.tokens, Capacity * TicksPerSecond)
         lastRefill == NumberOr(bucket.lastRefillTime, tb[w].now)
         elapsed    == tb[w].now - lastRefill
         newTokens  == NewTokens(Capacity, tokens, elapsed, RefillRate)
     IN IF BucketEmpty(newTokens)
        THEN /\ tb' = [tb EXCEPT ![w] = [TbIdle EXCEPT !.status = 429]]
             /\ tbLog' = Append(tbLog, [status |-> 429, remaining |-> 0,
                                        seen |-> tbWrites])
             /\ bucket' = RejectedBucket(bucket, tb[w].now)
        ELSE /\ tb' = [tb EXCEPT ![w].pc = "hmset", ![w].newTokens = newTokens,
                                 ![w].seen = tbWrites]
             /\ UNCHANGED <<tbLog, bucket>>
  /\ UNCHANGED <<now, tbStarted, tbOverlap, tbWrites, NotTB>>

\* lines 239-243: consume one token and persist the state
TBHmset(w) ==
  /\ tb[w].pc = "hmset"
  /\ bucket' = [present |-> TRUE,
                tokens |-> tb[w].newTokens - OneToken,
                lastRefillTime |-> tb[w].now,
                expireAt |-> bucket.expireAt]
  /\ tbWrites' = tbWrites + 1
  /\ tb' = [tb EXCEPT ![w].pc = "expire"]
  /\ UNCHANGED <<now, tbLog, tbStarted, tbOverlap, NotTB>>

\* lines 244-256: EXPIRE, response headers, next()
TBExpire(w) ==
  /\ tb[w].pc = "expire"
  /\ bucket' = IF bucket.present
               THEN [bucket EXCEPT !.expireAt = now + TtlSeconds * TicksPerSecond]
               ELSE bucket
  /\ tbLog' = Append(tbLog, [status |-> 200,
                             remaining |-> FloorTokens(tb[w].newTokens - OneToken),
                             seen |-> tb[w].seen])
  /\ tb' = [tb EXCEPT ![w] = [TbIdle EXCEPT !.status = 200]]
  /\ UNCHANGED <<now, tbStarted, tbOverlap, tbWrites, NotTB>>


\* ------------------------------------------------------------------------
\* Fixed window  (fixedWindowMiddlewareFactory)
\* ------------------------------------------------------------------------
NoCounter == [present |-> FALSE, n |-> 0, expireAt |-> 0]

FwIdle == [pc |-> "idle", requests |-> 0, at |-> 0]

\* the comparison of a lenient limiter, one request too many
FwOverLimitLenient(requests, limit) == requests > limit + 1

\* line 134: requests > opts.limit
FwOverLimit(requests, limit) == requests > limit

\* lines 109-128: resolve the id and the store handle
FWBegin(w) ==
  /\ fw[w].pc = "idle"
  /\ fwStarted < MaxRequests
  /\ fw' = [fw EXCEPT ![w] = [pc |-> "incr", requests |-> 0, at |-> 0]]
  /\ fwStarted' = fwStarted + 1
  /\ UNCHANGED <<now, counter, fwLog, fwCreated, NotFW>>

\* lines 129-140: INCR; a first hit goes on to EXPIRE, any other hit is
\* compared with the limit at once
FWIncr(w) ==
  /\ fw[w].pc = "incr"
  /\ LET requests == counter.n + 1
     IN /\ counter' = [present |-> TRUE, n |-> requests,
                       expireAt |-> counter.expireAt]
        /\ fwCreated' = IF counter.present THEN fwCreated ELSE fwCreated \cup {now}
        /\ IF requests = 1
           THEN /\ fw' = [fw EXCEPT ![w] = [pc |-> "expire", requests |-> requests,
                                            at |-> now]]
                /\ UNCHANGED fwLog
           ELSE IF FwOverLimit(requests, Limit)
           THEN /\ fw' = [fw EXCEPT ![w] = FwIdle]
                /\ fwLog' = Append(fwLog, [status |-> 429, at |-> now])
           ELSE /\ fw' = [fw EXCEPT ![w] = [pc |-> "ttl", requests |-> requests,
                                            at |-> now]]
                /\ UNCHANGED fwLog
  /\ UNCHANGED <<now, fwStarted, NotFW>>

\* lines 130-140: EXPIRE key windowSeconds after a first hit, then the
\* comparison with the limit
FWExpire(w) ==
  /\ fw[w].pc = "expire"
  /\ counter' = IF counter.present
                THEN [counter EXCEPT !.expireAt = now + WindowSeconds * TicksPerSecond]
                ELSE counter
  /\ IF FwOverLimit(fw[w].requests, Limit)
     THEN /\ fw' = [fw EXCEPT ![w] = FwIdle]
          /\ fwLog' = Append(fwLog, [status |-> 429, at |-> fw[w].at])
     ELSE /\ fw' = [fw EXCEPT ![w].pc = "ttl"]
          /\ UNCHANGED fwLog
  /\ UNCHANGED <<now, fwStarted, fwCreated, NotFW>>

\* lines 142-155: headers, TTL, next()
FWTtl(w) ==
  /\ fw[w].pc = "ttl"
  /\ fwLog' = Append(fwLog, [status |-> 200, at |-> fw[w].at])
  /\ fw' = [fw EXCEPT ![w] = FwIdle]
  /\ UNCHANGED <<now, counter, fwStarted, fwCreated, NotFW>>

\* lines 156-158: a store command (INCR, EXPIRE or TTL) rejects; the command
\* has no effect and the error goes to next(err), which answers 500
FWFail(w) ==
  /\ fw[w].pc \in {"incr", "expire", "ttl"}
  /\ fwLog' = Append(fwLog, [status |-> 500, at |-> now])
  /\ fw' = [fw EXCEPT ![w] = FwIdle]
  /\ UNCHANGED <<now, counter, fwStarted, fwCreated, NotFW>>

\* ------------------------------------------------------------------------
\* Reputation gate  (reputationMiddleware)
\* ------------------------------------------------------------------------
NoKey == [present |-> FALSE, expireAt |-> 0]
NoCache == [present |-> FALSE, value |-> [kind |-> "none", items |-> <<>>], expireAt |-> 0]
NoLock == [present |-> FALSE, owner |-> 0, expireAt |-> 0]

\* a ReputationResult, reduced to its optional score
NoScore == [has |-> FALSE, score |-> 0]
Score(n) == [has |-> TRUE, score |-> n]

\* what one adapter can answer: {} after a failure or without a score, or a
\* score just below or at the threshold
AdapterResults == {NoScore, Score(49), Score(50)}

\* reputationService.check: one result per adapter, in adapter order: every
\* adapter fails, one answers below the threshold, one answers at the
\* threshold (in either position)
CheckResults ==
  {<<NoScore, NoScore>>, <<Score(49), NoScore>>, <<Score(49), Score(50)>>,
   <<Score(50), Score(49)>>}

\* JSON.stringify(results): the text kept under the cache key
JSONStringify(results) == [kind |-> "array", items |-> results]

\* cache texts that do not come from JSON.stringify of a result array
Garbage == [kind |-> "garbage", items |-> <<>>]
NonArray == [kind |-> "nonarray", items |-> <<>>]

\* a result without a score counted as a score at the threshold
ScoreOrThreshold(r) == IF r.has THEN r.score ELSE REPUTATION_BLOCK_THRESHOLD

\* r.score ?? 0
ScoreOrZero(r) == IF r.has THEN r.score ELSE 0

\* ReputationService.maxScore: Math.max(0, ...results.map(r => r.score ?? 0))
RECURSIVE maxScore(_)
maxScore(results) ==
  IF results = <<>> THEN 0
  ELSE Max(ScoreOrZero(Head(results)), maxScore(Tail(results)))

\* a verdict test that lets the threshold score itself pass
isReputationBadStrict(results) == maxScore(results) > REPUTATION_BLOCK_THRESHOLD

\* lines 24-27
isReputationBad(results) == maxScore(results) >= REPUTATION_BLOCK_THRESHOLD

\* JSON.parse(cachedResult) followed by isReputationBad: "throws" for a text
\* that is not JSON or not an array, else the verdict
CachedVerdict(value) ==
  IF value.kind # "array" THEN "throws"
  ELSE IF isReputationBad(value.items) THEN "bad" ELSE "good"

\* millisecond and second TTLs in clock ticks, rounded up to a whole tick
LockTtlTicks == (LOCK_TTL * TicksPerSecond + 999) \div 1000
CacheTtlTicks == CACHE_TTL * TicksPerSecond

RepIdle == [pc |-> "idle", results |-> <<>>, cached |-> NoCache.value,
            read |-> FALSE, hit |-> FALSE, lockTried |-> FALSE, checked |-> FALSE,
            wroteCache |-> FALSE, err |-> FALSE, pending |-> FALSE,
            delFailed |-> FALSE, sent403 |-> FALSE, nextCalls |-> 0]

\* lines 34-37: a request enters the gate; without a client IP it is passed
RepEnter(r, hasIp) ==
  rep' = [rep EXCEPT ![r] =
            IF hasIp THEN [RepIdle EXCEPT !.pc = "get"]
            ELSE [RepIdle EXCEPT !.pc = "done", !.nextCalls = 1]]

RepBegin(r) ==
  /\ rep[r].pc \in {"idle", "done"}
  \* the handlers are interchangeable: a fresh one is taken in index order
  /\ rep[r].pc = "idle" => \A v \in Workers : v < r => rep[v].pc # "idle"
  /\ repStarted < MaxRepRequests
  /\ \E hasIp \in BOOLEAN : RepEnter(r, hasIp)
  /\ repStarted' = repStarted + 1
  /\ UNCHANGED <<now, repCache, repLock, NotRep>>

\* lines 41-52: GET the cache key; a hit is decided from the cached text
RepGet(r) ==
  /\ rep[r].pc = "get"
  /\ IF repCache.present
     THEN LET v == CachedVerdict(repCache.value)
          IN rep' = [rep EXCEPT ![r].pc = "done", ![r].read = TRUE,
                                ![r].hit = TRUE,
                                ![r].cached = repCache.value,
                                ![r].err = (v = "throws"),
                                ![r].sent403 = (v = "bad"),
                                ![r].nextCalls = IF v = "bad" THEN 0 ELSE 1]
     ELSE rep' = [rep EXCEPT ![r].pc = "setnx", ![r].read = TRUE]
  /\ UNCHANGED <<now, repCache, repLock, repStarted, NotRep>>

\* a contended request that goes on to the adapters without the lock
ContendedFanout(rec) == [rec EXCEPT !.pc = "check", !.lockTried = TRUE]

\* lines 58-66: the lock is held by someone else; return next()
Contended(rec) ==
  [rec EXCEPT !.pc = "done", !.lockTried = TRUE, !.nextCalls = 1]

\* lines 55-66: SET lockKey 'locked' PX LOCK_TTL NX
RepSetnx(r) ==
  /\ rep[r].pc = "setnx"
  /\ IF repLock.present
     THEN /\ rep' = [rep EXCEPT ![r] = Contended(@)]
          /\ UNCHANGED repLock
     ELSE /\ rep' = [rep EXCEPT ![r].pc = "check", ![r].lockTried = TRUE]
          /\ repLock' = [present |-> TRUE, owner |-> r,
                         expireAt |-> now + LockTtlTicks]
  /\ UNCHANGED <<now, repCache, repStarted, NotRep>>

\* lines 67-70: the adapter fan-out answers
RepCheck(r) ==
  /\ rep[r].pc = "check"
  /\ \E results \in CheckResults :
       rep' = [rep EXCEPT ![r].pc = "setex", ![r].checked = TRUE,
                          ![r].results = results]
  /\ UNCHANGED <<now, repCache, repLock, repStarted, NotRep>>

\* lines 72-81: SET cacheKey EX CACHE_TTL, then act on the fresh result
RepSetex(r) ==
  /\ rep[r].pc = "setex"
  /\ repCache' = [present |-> TRUE, value |-> JSONStringify(rep[r].results),
                  expireAt |-> now + CacheTtlTicks]
  /\ rep' = [rep EXCEPT ![r].pc = "del", ![r].wroteCache = TRUE,
                        ![r].sent403 = isReputationBad(rep[r].results),
                        ![r].nextCalls = IF isReputationBad(rep[r].results)
                                         THEN 0 ELSE 1]
  /\ UNCHANGED <<now, repLock, repStarted, NotRep>>

\* lines 82-85: finally, DEL lockKey; an exception of the try block then
\* reaches the catch of lines 86-91, which calls next()
RepDel(r) ==
  /\ rep[r].pc = "del"
  /\ repLock' = NoLock
  /\ rep' = [rep EXCEPT ![r].pc = "done", ![r].pending = FALSE,
                        ![r].nextCalls = IF rep[r].pending THEN @ + 1 ELSE @]
  /\ UNCHANGED <<now, repCache, repStarted, NotRep>>

\* a rejected SET EX that goes to the catch without the finally block
SetexRejectedUnreleased(rec) ==
  [rec EXCEPT !.pc = "done", !.err = TRUE, !.nextCalls = @ + 1]

\* line 73 rejects: the try block is left through the finally of lines
\* 82-85, the exception is still to reach the catch
SetexRejected(rec) ==
  [rec EXCEPT !.pc = "del", !.err = TRUE, !.pending = TRUE]

\* lines 86-91: a store command rejects.  GET and SET NX go straight to the
\* catch, which calls next(); SET EX leaves the try block for the finally;
\* DEL replaces whatever the try block returned and reaches the catch.
RepStoreFail(r) ==
  /\ rep[r].pc \in {"get", "setnx", "setex", "del"}
  /\ rep' = [rep EXCEPT ![r] =
       IF rep[r].pc = "setex"
       THEN SetexRejected(@)
       ELSE [@ EXCEPT !.pc = "done", !.err = TRUE, !.pending = FALSE,
                      !.lockTried = (@ \/ rep[r].pc = "setnx"),
                      !.delFailed = (rep[r].pc = "del"),
                      !.nextCalls = @ + 1]]
  /\ UNCHANGED <<now, repCache, repLock, repStarted, NotRep>>

\* ------------------------------------------------------------------------
\* Policy gate  (geoPolicyMiddleware, SecurityPolicyService reads)
\* ------------------------------------------------------------------------
\* address literals, as their four octets; NoIp is a missing client IP
NoIp == <<>>
IPs == {<<1, 1, 1, 1>>, <<10, 0, 5, 7>>, <<203, 0, 113, 9>>}

\* texts that do not parse as an address: the literal 'undefined' that
\* IPMiddleware substitutes, and a header value that is not an address
Text(n) == <<n>>
UndefinedText == Text(0)
GarbageText == Text(1)
IsAddress(ip) == Len(ip) = 4

\* prefixes of the CIDR denylist
Cidr(addr, len) == [addr |-> addr, len |-> len]
CIDRs == {Cidr(<<10, 0, 0, 0>>, 8), Cidr(<<203, 0, 113, 0>>, 24)}

Pow2(n) == CASE n = 0 -> 1 [] n = 1 -> 2 [] n = 2 -> 4 [] n = 3 -> 8
             [] n = 4 -> 16 [] n = 5 -> 32 [] n = 6 -> 64 [] n = 7 -> 128
             [] OTHER -> 256

\* number of leading bits of octet i that a prefix of length len covers
PrefixBits(len, i) == Max(0, Min(8, len - 8 * (i - 1)))

\* ipaddr match: the first len bits of ip and of the prefix address agree
InCidr(ip, c) ==
  \A i \in 1..4 :
    ip[i] \div Pow2(8 - PrefixBits(c.len, i))
      = c.addr[i] \div Pow2(8 - PrefixBits(c.len, i))

\* ipRangeCheck(ip, list): ip lies in one of the listed prefixes
ipRangeCheck(ip, list) ==
  IsAddress(ip) /\ \E i \in 1..Len(list) : InCidr(ip, list[i])

\* String.prototype.toUpperCase on the country codes of the model
toUpperCase(c) == CASE c = "ru" -> "RU" [] c = "us" -> "US" [] OTHER -> c

\* lines 62-64
isIpWhitelisted(ip) == ip \in ipWhitelist

\* a denylist test that knows exact members only
isIpBlacklistedExact(ip) == ip \in ipBlacklist

\* lines 66-69
isIpBlacklisted(ip) == ip \in ipBlacklist \/ ipRangeCheck(ip, cidrBlacklist)

\* lines 71-73
isCountryBlocked(countryCode) == toUpperCase(countryCode) \in countryBlocklist

\* GeoService.lookup: null, or a record with the country of the address
NoGeo == [found |-> FALSE, country |-> ""]
Geo(c) == [found |-> TRUE, country |-> c]
GeoAnswers == {NoGeo, Geo("RU"), Geo("US")}
\* geoip.lookup answers null for a text that is not an address
GeoLookups(ip) == IF IsAddress(ip) THEN GeoAnswers ELSE {NoGeo}

\* a gate that consults the denylists before the allowlist
geoPolicyDenyFirst(clientIp, geo) ==
  IF clientIp = NoIp THEN 400
  ELSE IF isIpBlacklisted(clientIp) THEN 403
  ELSE IF isIpWhitelisted(clientIp) THEN 0
  ELSE IF geo.found /\ isCountryBlocked(geo.country) THEN 403
  ELSE 0

\* lines 13-41: the status the gate answers, 0 when it calls next()
geoPolicyDecision(clientIp, geo) ==
  IF clientIp = NoIp THEN 400
  ELSE IF isIpWhitelisted(clientIp) THEN 0
  ELSE IF isIpBlacklisted(clientIp) THEN 403
  ELSE IF geo.found /\ isCountryBlocked(geo.country) THEN 403
  ELSE 0

\* lines 13-45 with the service lookup of line 19: getInstance throws when
\* no instance was bootstrapped, the catch hands the error to next(error)
\* and errorMiddleware answers 500
geoPolicyMiddleware(inst, clientIp, geo) ==
  IF clientIp = NoIp THEN 400
  ELSE IF ~inst THEN 500
  ELSE geoPolicyDecision(clientIp, geo)

PolIdle == [pc |-> "idle", ip |-> NoIp, geo |-> NoGeo, status |-> 0]

\* geoPolicyMiddleware runs without awaiting anything: one step; each
\* worker carries one request through the gate.  req.clientIp is what
\* IPMiddleware left there: an address or the text 'undefined'.
GeoPolicy(w) ==
  /\ pol[w].pc = "idle"
  /\ \E ip \in IPs \cup {UndefinedText} : \E geo \in GeoLookups(ip) :
       pol' = [pol EXCEPT ![w] = [pc |-> "done", ip |-> ip, geo |-> geo,
                                  status |-> geoPolicyMiddleware(instance, ip, geo)]]
  /\ UNCHANGED <<now, snapshotVars, instance, NotPol>>

\* ------------------------------------------------------------------------
\* IP resolver  (getClientIp, IPMiddleware)
\* ------------------------------------------------------------------------
\* ipaddr.js IPv4 range(): the name of the special range an address is in
range(ip) ==
  IF InCidr(ip, Cidr(<<0, 0, 0, 0>>, 8)) THEN "unspecified"
  ELSE IF InCidr(ip, Cidr(<<255, 255, 255, 255>>, 32)) THEN "broadcast"
  ELSE IF InCidr(ip, Cidr(<<224, 0, 0, 0>>, 4)) THEN "multicast"
  ELSE IF InCidr(ip, Cidr(<<169, 254, 0, 0>>, 16)) THEN "linkLocal"
  ELSE IF InCidr(ip, Cidr(<<127, 0, 0, 0>>, 8)) THEN "loopback"
  ELSE IF InCidr(ip, Cidr(<<100, 64, 0, 0>>, 10)) THEN "carrierGradeNat"
  ELSE IF \/ InCidr(ip, Cidr(<<10, 0, 0, 0>>, 8))
          \/ InCidr(ip, Cidr(<<172, 16, 0, 0>>, 12))
          \/ InCidr(ip, Cidr(<<192, 168, 0, 0>>, 16)) THEN "private"
  ELSE IF \/ InCidr(ip, Cidr(<<192, 0, 0, 0>>, 24))
          \/ InCidr(ip, Cidr(<<192, 0, 2, 0>>, 24))
          \/ InCidr(ip, Cidr(<<192, 88, 99, 0>>, 24))
          \/ InCidr(ip, Cidr(<<198, 51, 100, 0>>, 24))
          \/ InCidr(ip, Cidr(<<203, 0, 113, 0>>, 24))
          \/ InCidr(ip, Cidr(<<240, 0, 0, 0>>, 4)) THEN "reserved"
  ELSE "unicast"

\* lines 6-20: a text that does not parse is "not private"
isPrivate(ip) ==
  /\ IsAddress(ip)
  /\ range(ip) \in {"private", "loopback", "linkLocal", "uniqueLocal", "reserved"}

\* the trusted-proxy ranges (constants/cloudflare-ips)
CLOUDFLARE_IP_RANGES == <<Cidr(<<104, 16, 0, 0>>, 13)>>

\* lines 22-35
isFromCloudflare(ip) ==
  /\ IsAddress(ip)
  /\ \E i \in 1..Len(CLOUDFLARE_IP_RANGES) : InCidr(ip, CLOUDFLARE_IP_RANGES[i])

\* lines 56-59: the first element that is not private, else the first one
RECURSIVE FirstPublic(_, _)
FirstPublic(list, dflt) ==
  IF list = <<>> THEN dflt
  ELSE IF ~isPrivate(Head(list)) THEN Head(list)
  ELSE FirstPublic(Tail(list), dflt)

\* a request as the resolver sees it: the socket address (after the
\* ::ffff: prefix is stripped) and the three headers; NoIp and <<>> stand
\* for an absent address or header
NoRequest == [remote |-> NoIp, cf |-> NoIp, xr |-> NoIp, xff |-> <<>>]

\* lines 37-64; NoIp is the null result
getClientIp(req) ==
  IF /\ req.remote # NoIp /\ isFromCloudflare(req.remote)
     /\ req.cf # NoIp /\ ~isPrivate(req.cf)
  THEN req.cf
  ELSE IF req.xr # NoIp /\ ~isPrivate(req.xr) THEN req.xr
  ELSE IF req.xff # <<>> THEN FirstPublic(req.xff, Head(req.xff))
  ELSE req.remote

\* IPMiddleware: req.clientIp = getClientIp(req) || 'undefined'
IPMiddleware(req) ==
  IF getClientIp(req) = NoIp THEN UndefinedText ELSE getClientIp(req)

\* the socket addresses and header values of the model: a public address,
\* a private one, a multicast one, a trusted proxy, and a text that is not
\* an address
PublicIp == <<1, 1, 1, 1>>
PrivateIp == <<10, 0, 5, 7>>
MulticastIp == <<224, 0, 0, 1>>
ProxyIp == <<104, 16, 0, 1>>
SocketAddrs == {NoIp, PublicIp, PrivateIp, ProxyIp}
HeaderValues == {NoIp, PublicIp, PrivateIp, MulticastIp, GarbageText}
XffLists == {<<>>, <<PublicIp>>, <<PrivateIp>>, <<PrivateIp, PublicIp>>,
             <<GarbageText, PublicIp>>}
Requests == [remote : SocketAddrs, cf : HeaderValues, xr : HeaderValues,
             xff : XffLists]

\* app.ts lines 80 and 94: IPMiddleware derives req.clientIp from the
\* request, geoPolicyMiddleware decides on it
GateRequest(w) ==
  /\ \A v \in Workers : pol[v].pc = "idle"
  /\ LET ip == IPMiddleware(request)
     IN \E geo \in GeoLookups(ip) :
          pol' = [pol EXCEPT ![w] = [pc |-> "done", ip |-> ip, geo |-> geo,
                                     status |-> geoPolicyMiddleware(instance, ip, geo)]]
  /\ UNCHANGED <<now, snapshotVars, instance, NotPol>>

\* ------------------------------------------------------------------------
\* Policy reload  (SecurityPolicyService.reloadAll, InvalidationService,
\*                 GeoBlockController, startServer)
\* ------------------------------------------------------------------------
NoStore == [wl |-> {}, bl |-> {}, cidrs |-> {}, countries |-> {}]

\* the SMEMBERS reads of one reloadAll, in the order they are issued
ListNames == <<"wl", "bl", "cidrs", "countries">>

\* SMEMBERS answers an array: the members in some order
SeqOf(S) ==
  CHOOSE q \in [1..Cardinality(S) -> S] : {q[i] : i \in 1..Cardinality(S)} = S

\* what the admin surface can add or remove
AdminElems(list) ==
  IF list = "countries" THEN {"us", "RU"} ELSE {<<1, 1, 1, 1>>}

\* an assignment block that yields between the second and the third list
AssignedAtOnceTorn(assigned) ==
  IF assigned = {} THEN {1, 2} ELSE (1..4) \ assigned

\* lines 42-45: the lists assigned without yielding once Promise.all has
\* resolved
AssignedAtOnce(assigned) == (1..4) \ assigned

\* a reloadAll that has issued its four SMEMBERS; `instants` keeps the
\* contents the store has had since, up to the last answer
NewReload(src) == [id |-> reloadCount + 1, src |-> src, got |-> <<>>,
                   assigned |-> {}, instants |-> {store}]

\* the store has new contents: every reload still reading has seen one
\* more instant of it
Witnessed(rs, st) ==
  [i \in 1..Len(rs) |->
     IF Len(rs[i].got) < 4 THEN [rs[i] EXCEPT !.instants = @ \cup {st}]
     ELSE rs[i]]

RemoveAt(q, i) == SubSeq(q, 1, i - 1) \o SubSeq(q, i + 1, Len(q))

\* GeoBlockController add/remove handlers, first await: SADD or SREM of the
\* body value as given
AdminWrite ==
  /\ mutations < MaxMutations
  /\ mutations' = mutations + 1
  /\ \E list \in {"wl", "bl", "countries"} :
       \E elem \in AdminElems(list), add \in BOOLEAN :
         store' = [store EXCEPT ![list] = IF add THEN @ \cup {elem}
                                          ELSE @ \ {elem}]
  /\ reloads' = Witnessed(reloads, store')
  /\ pendingPublish' = Append(pendingPublish, store' # store)
  /\ UNCHANGED <<proc, reloadCount, installedBy, published, failures,
                 snapshotVars, mutators, NotReload>>

\* second await: PUBLISH 'reload'.  A subscribed replica runs handleMessage
\* at once, up to the SMEMBERS calls of reloadAll; without an active
\* subscription the message is gone.
AdminPublish ==
  /\ \E i \in 1..Len(pendingPublish) :
       pendingPublish' = RemoveAt(pendingPublish, i)
  /\ published' = published + 1
  /\ IF proc = "subscribed"
     THEN /\ reloads' = Append(reloads, NewReload("msg"))
          /\ reloadCount' = reloadCount + 1
     ELSE UNCHANGED <<reloads, reloadCount>>
  /\ UNCHANGED <<store, proc, installedBy, mutations, failures,
                 snapshotVars, mutators, NotReload>>

\* the PUBLISH rejects (the store connection is lost after the write): the
\* handler has no try/catch and no retry, the rejected promise leaves it
\* with the store written and no message sent.  The route is mounted
\* without asyncHandler, so the rejection is unhandled: the replica that
\* served the request ends or only reports it, depending on the runtime.
AdminPublishFail ==
  /\ \E i \in 1..Len(pendingPublish) :
       pendingPublish' = RemoveAt(pendingPublish, i)
  /\ \E survives \in BOOLEAN :
       IF survives \/ proc = "dead"
       THEN UNCHANGED <<proc, reloads>>
       ELSE /\ reloads' = <<>>
            /\ proc' = "dead"
  /\ UNCHANGED <<store, reloadCount, installedBy, published, mutations,
                 failures, snapshotVars, mutators, NotReload>>

\* the store serves the next SMEMBERS of the oldest reload; the commands of
\* one connection are served in the order they were sent
ReloadRead ==
  /\ proc # "dead"
  /\ reloads # <<>>
  /\ Len(Head(reloads).got) < 4
  /\ reloads' = [reloads EXCEPT ![1].got =
                   Append(@, store[ListNames[Len(@) + 1]])]
  /\ UNCHANGED <<store, proc, reloadCount, installedBy, pendingPublish,
                 published, mutations, failures, snapshotVars, mutators, NotReload>>

\* lines 42-45 (and, for the first load, server.ts line 25 returning)
ReloadInstall ==
  /\ proc # "dead"
  /\ reloads # <<>>
  /\ Len(Head(reloads).got) = 4
  /\ LET r   == Head(reloads)
         set == AssignedAtOnce(r.assigned)
         fin == r.assigned \cup set = 1..4
     IN /\ ipWhitelist' = IF 1 \in set THEN r.got[1] ELSE ipWhitelist
        /\ ipBlacklist' = IF 2 \in set THEN r.got[2] ELSE ipBlacklist
        /\ cidrBlacklist' = IF 3 \in set THEN SeqOf(r.got[3]) ELSE cidrBlacklist
        /\ countryBlocklist' = IF 4 \in set THEN r.got[4] ELSE countryBlocklist
        /\ installedBy' = [k \in 1..4 |-> IF k \in set THEN r.id
                                           ELSE installedBy[k]]
        /\ reloads' = IF fin THEN Tail(reloads)
                      ELSE [reloads EXCEPT ![1].assigned = @ \cup set]
        /\ proc' = IF fin /\ r.src = "boot" THEN "loaded" ELSE proc
  /\ UNCHANGED <<store, reloadCount, pendingPublish, published, mutations,
                 failures, mutators, NotReload>>

\* a SMEMBERS of the oldest reload fails: Promise.all rejects and nothing is
\* assigned.  At startup the rejection reaches startServer's catch
\* (process.exit(1)); in handleMessage nothing catches it, and an unhandled
\* rejection ends the process or is only reported, depending on the runtime.
ReloadFail ==
  /\ proc # "dead"
  /\ failures < MaxReloadFailures
  /\ reloads # <<>>
  /\ Len(Head(reloads).got) < 4
  /\ failures' = failures + 1
  /\ \E survives \in BOOLEAN :
       IF Head(reloads).src = "msg" /\ survives
       THEN /\ reloads' = Tail(reloads)
            /\ UNCHANGED proc
       ELSE /\ reloads' = <<>>
            /\ proc' = "dead"
  /\ UNCHANGED <<store, reloadCount, installedBy, pendingPublish, published,
                 mutations, snapshotVars, mutators, NotReload>>

\* server.ts lines 27-28, InvalidationService.initialize: the subscription
\* becomes active after the first load has returned
Subscribe ==
  /\ proc = "loaded"
  /\ proc' = "subscribed"
  /\ UNCHANGED <<store, reloads, reloadCount, installedBy, pendingPublish,
                 published, mutations, failures, snapshotVars, mutators, NotReload>>

\* what the mutators of the service can add or remove
MutatorElems(list) ==
  IF list = "cidrs" THEN {Cidr(<<10, 0, 0, 0>>, 8)} ELSE AdminElems(list)

\* lines 101, 106: addCountry and removeCountry work on code.toUpperCase()
MutatorArg(list, elem) == IF list = "countries" THEN toUpperCase(elem) ELSE elem

\* lines 75-109, first half of a mutator: the store executes its SADD or
\* SREM.  The command travels on the connection reloadAll uses, so it is
\* served before or after the four SMEMBERS of a reload, never among them.
MutatorWrite ==
  /\ proc # "dead"
  /\ instance
  /\ Len(mutators) < MaxMutations
  /\ \A i \in 1..Len(reloads) : Len(reloads[i].got) \in {0, 4}
  /\ \E list \in {"wl", "bl", "cidrs", "countries"} :
       \E elem \in MutatorElems(list), add \in BOOLEAN :
         /\ store' = [store EXCEPT ![list] =
                        IF add THEN @ \cup {MutatorArg(list, elem)}
                        ELSE @ \ {MutatorArg(list, elem)}]
         /\ mutators' = Append(mutators,
                               [list |-> list, elem |-> MutatorArg(list, elem),
                                add |-> add, done |-> FALSE])
  /\ reloads' = Witnessed(reloads, store')
  /\ UNCHANGED <<proc, reloadCount, installedBy, pendingPublish, published,
                 mutations, failures, snapshotVars, NotReload>>

\* this.cidrBlacklist.filter((c) => c !== cidr)
Filter(q, x) ==
  LET F[i \in 0..Len(q)] ==
        IF i = 0 THEN <<>>
        ELSE IF q[i] = x THEN F[i - 1] ELSE Append(F[i - 1], q[i])
  IN F[Len(q)]

\* second half of a mutator, after its await: Set.add, Set.delete,
\* Array.push or Array.filter on the in-memory list.  The replies of one
\* connection arrive in the order of the commands, so the oldest waiting
\* mutator continues first.
MutatorApply ==
  /\ proc # "dead"
  /\ \E i \in 1..Len(mutators) :
       /\ ~mutators[i].done
       /\ \A j \in 1..(i - 1) : mutators[j].done
       /\ LET m == mutators[i]
          IN /\ ipWhitelist' =
                  IF m.list # "wl" THEN ipWhitelist
                  ELSE IF m.add THEN ipWhitelist \cup {m.elem}
                  ELSE ipWhitelist \ {m.elem}
             /\ ipBlacklist' =
                  IF m.list # "bl" THEN ipBlacklist
                  ELSE IF m.add THEN ipBlacklist \cup {m.elem}
                  ELSE ipBlacklist \ {m.elem}
             /\ cidrBlacklist' =
                  IF m.list # "cidrs" THEN cidrBlacklist
                  ELSE IF m.add THEN Append(cidrBlacklist, m.elem)
                  ELSE Filter(cidrBlacklist, m.elem)
             /\ countryBlocklist' =
                  IF m.list # "countries" THEN countryBlocklist
                  ELSE IF m.add THEN countryBlocklist \cup {m.elem}
                  ELSE countryBlocklist \ {m.elem}
       /\ mutators' = [mutators EXCEPT ![i].done = TRUE]
  /\ UNCHANGED <<store, proc, reloads, reloadCount, installedBy, pendingPublish,
                 published, mutations, failures, NotReload>>

\* lines 55-58: a message arrives on the channel and the subscription's
\* callback calls reloadAll
ReloadMessage ==
  /\ proc = "subscribed"
  /\ reloadCount < MaxMutations
  /\ reloads' = Append(reloads, NewReload("msg"))
  /\ reloadCount' = reloadCount + 1
  /\ UNCHANGED <<store, proc, installedBy, pendingPublish, published,
                 mutations, failures, snapshotVars, mutators, NotReload>>

\* ------------------------------------------------------------------------
\* Leaky-bucket limiter  (acquireToken, createRateLimitMiddleware)
\* ------------------------------------------------------------------------
NoLeaky == [present |-> FALSE, tokens |-> 0, lastRefill |-> 0, expireAt |-> 0]

\* lastRefill is kept multiplied by the refill rate, so that
\* lastRefill + (tokensToAdd / refillRate) * 1000 stays a whole number
AcqIdle == [pc |-> "idle", now |-> 0, tokens |-> 0, lastRefill |-> 0,
            failed |-> FALSE, status |-> 0]

\* lines 41-42: Math.floor(timeSinceLastRefill * refillRate)
TokensToAdd(t, lastRefill, refillRate) ==
  (t * refillRate - lastRefill) \div TicksPerSecond

\* lines 61 and 73: Math.ceil(capacity / refillRate) + 60 seconds
LeakyTtlTicks(capacity, refillRate) ==
  ((capacity + refillRate - 1) \div refillRate + 60) * TicksPerSecond

\* the middleware starts a step: now = Date.now()
AcqBegin(w) ==
  /\ acq[w].pc = "idle"
  /\ acqStarted < MaxRequests
  /\ acqStarted' = acqStarted + 1
  /\ acq' = [acq EXCEPT ![w] = [AcqIdle EXCEPT !.pc = "get", !.now = now]]
  /\ UNCHANGED <<now, leaky, NotAcq>>

\* lines 30-47: getJSON and the refill computation
AcqGet(w) ==
  /\ acq[w].pc = "get"
  /\ IF ~leaky.present
     THEN acq' = [acq EXCEPT ![w].pc = "set", ![w].tokens = Capacity,
                             ![w].lastRefill = acq[w].now * RefillRate]
     ELSE LET add == TokensToAdd(acq[w].now, leaky.lastRefill, RefillRate)
          IN acq' = [acq EXCEPT ![w].pc = "set",
                                ![w].tokens = Min(Capacity, leaky.tokens + add),
                                ![w].lastRefill =
                                  leaky.lastRefill + add * TicksPerSecond]
  /\ UNCHANGED <<now, leaky, acqStarted, NotAcq>>

\* lines 50-77: setJSON of the new state, then the middleware calls next()
\* (status 200) or answers 429
AcqSet(w) ==
  /\ acq[w].pc = "set"
  /\ leaky' = [present |-> TRUE,
               tokens |-> IF acq[w].tokens > 0 THEN acq[w].tokens - 1 ELSE 0,
               lastRefill |-> acq[w].lastRefill,
               expireAt |-> now + LeakyTtlTicks(Capacity, RefillRate)]
  /\ acq' = [acq EXCEPT ![w].pc = "done",
                        ![w].status = IF acq[w].tokens > 0 THEN 200 ELSE 429]
  /\ UNCHANGED <<now, acqStarted, NotAcq>>

\* lines 78-84: getJSON or setJSON rejects; the catch returns true and the
\* middleware calls next()
AcqFail(w) ==
  /\ acq[w].pc \in {"get", "set"}
  /\ acq' = [acq EXCEPT ![w].pc = "done", ![w].failed = TRUE,
                        ![w].status = 200]
  /\ UNCHANGED <<now, leaky, acqStarted, NotAcq>>

\* the response is out; the worker takes the next request
AcqEnd(w) ==
  /\ acq[w].pc = "done"
  /\ acq' = [acq EXCEPT ![w] = AcqIdle]
  /\ UNCHANGED <<now, leaky, acqStarted, NotAcq>>

\* ------------------------------------------------------------------------
\* Rate-limit configuration  (RateLimitService, RateLimitController,
\*                            apiKeyRateLimiterMiddleware)
\* ------------------------------------------------------------------------
\* the JavaScript values a capacity or a refillRate can be; Str is a text
\* that is not a number
Num(n) == [t |-> "number", v |-> n]
NaN == [t |-> "NaN", v |-> 0]
Undefined == [t |-> "undefined", v |-> 0]
Null == [t |-> "null", v |-> 0]
Str == [t |-> "string", v |-> 0]

\* the JSON text of one member of the stored object
JNumber(n) == [j |-> "number", v |-> n]
JNull == [j |-> "null", v |-> 0]
JString == [j |-> "string", v |-> 0]
JOmitted == [j |-> "omitted", v |-> 0]

\* JSON.stringify of a member: a non-finite number is written as null, an
\* undefined member is left out
StringifyMember(x) ==
  CASE x.t = "number" -> JNumber(x.v)
    [] x.t = "string" -> JString
    [] x.t = "undefined" -> JOmitted
    [] OTHER -> JNull

\* JSON.parse of a member
ParseMember(m) ==
  CASE m.j = "number" -> Num(m.v)
    [] m.j = "string" -> Str
    [] m.j = "null" -> Null
    [] OTHER -> Undefined

\* the field of the API key in the rl:config hash: absent, a text that is
\* not JSON, or the text of an object
NoField == [kind |-> "absent", capacity |-> JOmitted, refillRate |-> JOmitted]
NotJson == [kind |-> "text", capacity |-> JOmitted, refillRate |-> JOmitted]
JsonField(c, r) == [kind |-> "json", capacity |-> c, refillRate |-> r]

\* lines 24-27: JSON.stringify({capacity, refillRate})
StringifyConfig(capacity, refillRate) ==
  JsonField(StringifyMember(capacity), StringifyMember(refillRate))

\* Number.isFinite
IsFinite(x) == x.t = "number"

\* a validation that lets zero through
updateValidNonNegative(apiKey, capacity, refillRate) ==
  /\ apiKey # ""
  /\ IsFinite(capacity) /\ capacity.v >= 0
  /\ IsFinite(refillRate) /\ refillRate.v >= 0

\* lines 16-22: the three throws of updateConfig
updateValid(apiKey, capacity, refillRate) ==
  /\ apiKey # ""
  /\ IsFinite(capacity) /\ capacity.v > 0
  /\ IsFinite(refillRate) /\ refillRate.v > 0

\* a read that never looks at the stored field
getConfigDefaultsOnly(raw, defaults) ==
  [capacity |-> defaults.capacity, refillRate |-> defaults.refillRate,
   isDefault |-> TRUE]

\* lines 38-52: HGET, then the defaults for an absent field or a text that
\* does not parse, else the parsed object
getConfig(raw, defaults) ==
  IF raw.kind = "json"
  THEN [capacity |-> ParseMember(raw.capacity),
        refillRate |-> ParseMember(raw.refillRate), isDefault |-> FALSE]
  ELSE [capacity |-> defaults.capacity, refillRate |-> defaults.refillRate,
        isDefault |-> TRUE]

\* RateLimitController.getConfig: the same read with the controller's own
\* defaults
ControllerDefaults ==
  [capacity |-> Num(DEFAULT_CAPACITY), refillRate |-> Num(DEFAULT_REFILL_RATE)]

controllerGetConfig(raw) ==
  IF raw.kind = "json"
  THEN [capacity |-> ParseMember(raw.capacity),
        refillRate |-> ParseMember(raw.refillRate), isDefault |-> FALSE]
  ELSE [capacity |-> ControllerDefaults.capacity,
        refillRate |-> ControllerDefaults.refillRate, isDefault |-> TRUE]

\* config.ratelimit.defaultCapacity and defaultRefillTokens
Defaults == [capacity |-> Num(Capacity), refillRate |-> Num(RefillRate)]

\* a limiter that keeps to the built-in capacity
getCapacityBuiltIn(raw, defaults) == defaults.capacity

\* part_004 lines 13-24 and 26-37: each resolver reads the stored config
getCapacity(raw, defaults) == getConfig(raw, defaults).capacity
getRefillRate(raw, defaults) == getConfig(raw, defaults).refillRate

\* `x <= 0` in JavaScript: null counts as 0, a value that is not a number
\* compares false
JsLeqZero(x) ==
  CASE x.t = "number" -> x.v <= 0
    [] x.t = "null" -> TRUE
    [] OTHER -> FALSE

\* a capacity in whole tokens, in balance units
Scale(x) == IF x.t = "number" THEN Num(x.v * TicksPerSecond) ELSE x

\* `Number(str) || dflt` on the stored tokens: null, "0" and "NaN" fall back
JsNumberOr(stored, dflt) ==
  IF stored.t = "number" /\ stored.v # 0 THEN stored ELSE dflt

\* elapsedSeconds * refillRate, in balance units; elapsed is in ticks
JsTimes(elapsed, rate) ==
  IF rate.t = "number" THEN Num(elapsed * rate.v) ELSE NaN

\* a + b: a text operand makes it a concatenation
JsPlus(a, b) ==
  IF a.t = "number" /\ b.t = "number" THEN Num(a.v + b.v)
  ELSE IF a.t = "string" \/ b.t = "string" THEN Str
  ELSE NaN

\* Math.min(a, b)
JsMin(a, b) ==
  IF a.t = "number" /\ b.t = "number" THEN Num(Min(a.v, b.v)) ELSE NaN

\* a < n and a - n for a number n
JsLess(a, n) == a.t = "number" /\ a.v < n
JsMinus(a, n) == IF a.t = "number" THEN Num(a.v - n) ELSE NaN

NoKb == [present |-> FALSE, tokens |-> Num(0), lastRefillTime |-> 0]

\* `versions` keeps the texts the config field has held between the HGET
\* of getCapacity and the HGET of getRefillRate of the step, until the
\* step has used the two values
AkIdle == [pc |-> "idle", now |-> 0, ver |-> 0, capacity |-> Undefined,
           refillRate |-> Undefined, newTokens |-> NaN, failed |-> FALSE,
           status |-> 0, versions |-> {}]

\* the config field has a new text: every step between its two reads has
\* seen one more version of it
Versioned(a, raw) ==
  [w \in Workers |->
     IF a[w].pc = "refill" THEN [a[w] EXCEPT !.versions = @ \cup {raw}]
     ELSE a[w]]

NoAdmin == [op |-> "none", ok |-> FALSE, apiKey |-> "",
            capacity |-> Undefined, refillRate |-> Undefined]

NoGot == [svc |-> getConfig(NoField, Defaults),
          ctl |-> controllerGetConfig(NoField), ver |-> 0, read |-> FALSE]

\* what an update request can carry
\* a well-formed request, or one with a single defect
UpdateRequests ==
  {[apiKey |-> "k1", capacity |-> Num(c), refillRate |-> Num(RefillRate)] :
     c \in {1, Capacity}}
    \cup {[apiKey |-> "", capacity |-> Num(1), refillRate |-> Num(1)]}
    \cup {[apiKey |-> "k1", capacity |-> c, refillRate |-> Num(1)] :
            c \in {NaN, Num(0)}}
    \cup {[apiKey |-> "k1", capacity |-> Num(1), refillRate |-> r] :
            r \in {NaN, Num(0)}}

\* updateConfig: validate, then HSET the JSON text
ConfigUpdate ==
  /\ cfgOps < MaxCfgOps
  /\ \E u \in UpdateRequests :
       LET valid == updateValid(u.apiKey, u.capacity, u.refillRate)
       IN /\ rlConfig' = IF valid
                         THEN StringifyConfig(u.capacity, u.refillRate)
                         ELSE rlConfig
          /\ admin' = [op |-> "update", ok |-> valid, apiKey |-> u.apiKey,
                       capacity |-> u.capacity, refillRate |-> u.refillRate]
  /\ ak' = Versioned(ak, rlConfig')
  /\ cfgOps' = cfgOps + 1
  /\ UNCHANGED <<now, kb, akStarted, got, NotCfg>>

\* deleteConfig: HDEL, true when a field was removed
ConfigDelete ==
  /\ cfgOps < MaxCfgOps
  /\ rlConfig' = NoField
  /\ admin' = [NoAdmin EXCEPT !.op = "delete", !.ok = (rlConfig.kind # "absent"),
                              !.apiKey = "k1"]
  /\ ak' = Versioned(ak, rlConfig')
  /\ cfgOps' = cfgOps + 1
  /\ UNCHANGED <<now, kb, akStarted, got, NotCfg>>

\* getConfig of the service and of the controller
ConfigGet ==
  /\ got.ver # cfgOps \/ ~got.read
  /\ got' = [svc |-> getConfig(rlConfig, Defaults),
             ctl |-> controllerGetConfig(rlConfig), ver |-> cfgOps,
             read |-> TRUE]
  /\ UNCHANGED <<now, rlConfig, kb, ak, akStarted, admin, cfgOps, NotCfg>>

\* factory lines 175-192: the id and the store client are there
AkBegin(w) ==
  /\ ak[w].pc \in {"idle", "done"}
  \* the handlers are interchangeable: a fresh one is taken in index order
  /\ ak[w].pc = "idle" => \A v \in Workers : v < w => ak[v].pc # "idle"
  /\ akStarted < MaxCfgSteps
  /\ akStarted' = akStarted + 1
  /\ ak' = [ak EXCEPT ![w] = [AkIdle EXCEPT !.pc = "capacity", !.now = now,
                                            !.ver = cfgOps]]
  /\ UNCHANGED <<now, rlConfig, kb, admin, cfgOps, got, NotCfg>>

\* factory line 194: await opts.getCapacity(req, id)
AkCapacity(w) ==
  /\ ak[w].pc = "capacity"
  /\ ak' = [ak EXCEPT ![w].pc = "refill",
                      ![w].capacity = getCapacity(rlConfig, Defaults),
                      ![w].versions = {rlConfig}]
  /\ UNCHANGED <<now, rlConfig, kb, akStarted, admin, cfgOps, got, NotCfg>>

\* factory lines 195-206: await opts.getRefillRate(req, id), then the
\* `<= 0` test that answers 500
AkRefill(w) ==
  /\ ak[w].pc = "refill"
  /\ LET refillRate == getRefillRate(rlConfig, Defaults)
     IN IF JsLeqZero(ak[w].capacity) \/ JsLeqZero(refillRate)
        THEN ak' = [ak EXCEPT ![w].pc = "done", ![w].refillRate = refillRate,
                              ![w].status = 500]
        ELSE ak' = [ak EXCEPT ![w].pc = "hmget", ![w].refillRate = refillRate]
  /\ UNCHANGED <<now, rlConfig, kb, akStarted, admin, cfgOps, got, NotCfg>>

\* factory lines 209-236: HMGET, the refill computation, the 429 branch
AkHmget(w) ==
  /\ ak[w].pc = "hmget"
  /\ LET tokens      == JsNumberOr(kb.tokens, Scale(ak[w].capacity))
         lastRefill  == NumberOr(kb.lastRefillTime, ak[w].now)
         tokensToAdd == JsTimes(ak[w].now - lastRefill, ak[w].refillRate)
         newTokens   == JsMin(Scale(ak[w].capacity), JsPlus(tokens, tokensToAdd))
     IN IF JsLess(newTokens, OneToken)
        THEN ak' = [ak EXCEPT ![w].pc = "done", ![w].newTokens = newTokens,
                              ![w].status = 429, ![w].versions = {}]
        ELSE ak' = [ak EXCEPT ![w].pc = "hmset", ![w].newTokens = newTokens,
                              ![w].versions = {}]
  /\ UNCHANGED <<now, rlConfig, kb, akStarted, admin, cfgOps, got, NotCfg>>

\* factory lines 239-256: HMSET of the new balance, EXPIRE, next()
AkHmset(w) ==
  /\ ak[w].pc = "hmset"
  /\ kb' = [present |-> TRUE, tokens |-> JsMinus(ak[w].newTokens, OneToken),
            lastRefillTime |-> ak[w].now]
  /\ ak' = [ak EXCEPT ![w].pc = "done", ![w].status = 200]
  /\ UNCHANGED <<now, rlConfig, akStarted, admin, cfgOps, got, NotCfg>>

\* factory lines 257-259: a store command rejects, next(err)
AkFail(w) ==
  /\ ak[w].pc \in {"capacity", "refill", "hmget", "hmset"}
  /\ ak' = [ak EXCEPT ![w] = [AkIdle EXCEPT !.pc = "done", !.ver = ak[w].ver,
                                            !.failed = TRUE, !.status = 500]]
  /\ UNCHANGED <<now, rlConfig, kb, akStarted, admin, cfgOps, got, NotCfg>>

\* ------------------------------------------------------------------------
\* Scoped buckets  (ipRateLimiterMiddleware, apiKeyRateLimiterMiddleware)
\* ------------------------------------------------------------------------
\* Strings are sequences of text pieces, so that concatenation is \o.
\* REDIS_RATE_LIMIT.tokenBucketPrefix: both limiters pass it as keyPrefix
\* (ip.middleware line 10, apikey.middleware line 11)
TOKEN_BUCKET_PREFIX == <<"leaky-bucket", ":", "rate-limit", ":", "bucket", ":">>

\* the two limiters
Scopes == {"ip", "apikey"}
keyPrefix(scope) == TOKEN_BUCKET_PREFIX

\* identifiers a request can carry: req.clientIp, and the x-api-key header,
\* which is any text the client sends
ClientIpText == <<"1.1.1.1">>
ApiKeyText == <<"k1">>
ClientIps == {ClientIpText}
ApiKeys == {ApiKeyText, ClientIpText}
ScopeIds(scope) == IF scope = "ip" THEN ClientIps ELSE ApiKeys

\* p ? (p.endsWith(':') ? p : p + ':') : ''
ensurePrefix(p) ==
  IF p = <<>> THEN <<>>
  ELSE IF p[Len(p)] = ":" THEN p ELSE Append(p, ":")

\* `${ensurePrefix(prefix)}${id}`
makeKey(prefix, id) == ensurePrefix(prefix) \o id

\* the hash a limiter of the given scope uses for an identifier
BucketKey(scope, id) == makeKey(keyPrefix(scope), id)

BucketKeys == {BucketKey(s, id) : s \in Scopes, id \in ApiKeys \cup ClientIps}

ScIdle == [pc |-> "idle", scope |-> "", key |-> <<>>, now |-> 0,
           capacity |-> 0, newTokens |-> 0, status |-> 0]

\* factory lines 175-206: getId, makeKey, getCapacity, getRefillRate, now
ScBegin(w) ==
  /\ sc[w].pc \in {"idle", "done"}
  /\ sc[w].pc = "idle" => \A v \in Workers : v < w => sc[v].pc # "idle"
  /\ scStarted < MaxRequests
  /\ scStarted' = scStarted + 1
  /\ \E scope \in Scopes : \E id \in ScopeIds(scope) :
       sc' = [sc EXCEPT ![w] =
                [ScIdle EXCEPT !.pc = "hmget", !.scope = scope,
                               !.key = BucketKey(scope, id), !.now = now,
                               !.capacity =
                                 IF scope = "ip" THEN Capacity
                                 ELSE getCapacity(rlConfig, Defaults).v]]
  /\ UNCHANGED <<now, keyspace, NotSc>>

\* factory lines 209-236: HMGET of the key, refill, the 429 branch
ScHmget(w) ==
  /\ sc[w].pc = "hmget"
  /\ LET b          == keyspace[sc[w].key]
         tokens     == NumberOr(b.tokens, sc[w].capacity * TicksPerSecond)
         lastRefill == NumberOr(b.lastRefillTime, sc[w].now)
         newTokens  == NewTokens(sc[w].capacity, tokens,
                                 sc[w].now - lastRefill, RefillRate)
     IN IF BucketEmpty(newTokens)
        THEN sc' = [sc EXCEPT ![w].pc = "done", ![w].status = 429]
        ELSE sc' = [sc EXCEPT ![w].pc = "hmset", ![w].newTokens = newTokens]
  /\ UNCHANGED <<now, keyspace, scStarted, NotSc>>

\* factory lines 239-256: HMSET of the key, EXPIRE, next(); the TTL of
\* ttlSeconds lies beyond the clock of the model
ScHmset(w) ==
  /\ sc[w].pc = "hmset"
  /\ keyspace' = [keyspace EXCEPT ![sc[w].key] =
                    [present |-> TRUE,
                     tokens |-> sc[w].newTokens - OneToken,
                     lastRefillTime |-> sc[w].now]]
  /\ sc' = [sc EXCEPT ![w].pc = "done", ![w].status = 200]
  /\ UNCHANGED <<now, scStarted, NotSc>>

\* ------------------------------------------------------------------------
\* Pipeline composition  (createApp, routes/index)
\* ------------------------------------------------------------------------
\* the client address IPMiddleware derives for the requests of the model
PipeClientIp == <<1, 1, 1, 1>>

\* request paths: the health mount, a path the health mount does not
\* match, and a mount behind the per-IP limiter
PipePaths == {"/health", "/healthz", "/auth"}

PipeIdle == [stage |-> "idle", path |-> "", ip |-> NoIp, allowlisted |-> FALSE,
             status |-> 0]

\* app.ts lines 80-95: IPMiddleware, redisMiddleware (503 without a store
\* connection), the /health mount (answers when one of its routes matches),
\* geoPolicyMiddleware, and on next() the entry into reputationMiddleware
PipeArrive(w) ==
  /\ pipe[w].stage \in {"idle", "handler", "rejected"}
  /\ rep[w].pc \in {"idle", "done"}
  /\ pipeStarted < MaxPipeRequests
  /\ pipeStarted' = pipeStarted + 1
  /\ \E path \in PipePaths, routeMatch \in BOOLEAN, redisUp \in BOOLEAN,
        geo \in GeoAnswers :
       LET req == [PipeIdle EXCEPT !.path = path, !.ip = PipeClientIp]
           d   == geoPolicyMiddleware(instance, PipeClientIp, geo)
       IN IF ~redisUp
          THEN /\ pipe' = [pipe EXCEPT ![w] =
                             [req EXCEPT !.stage = "rejected", !.status = 503]]
               /\ UNCHANGED rep
          ELSE IF path = "/health" /\ routeMatch
          THEN /\ pipe' = [pipe EXCEPT ![w] =
                             [req EXCEPT !.stage = "handler", !.status = 200]]
               /\ UNCHANGED rep
          ELSE IF d # 0
          THEN /\ pipe' = [pipe EXCEPT ![w] =
                             [req EXCEPT !.stage = "rejected", !.status = d]]
               /\ UNCHANGED rep
          ELSE /\ pipe' = [pipe EXCEPT ![w] =
                             [req EXCEPT !.stage = "rep",
                                !.allowlisted = isIpWhitelisted(PipeClientIp)]]
               /\ RepEnter(w, TRUE)
  /\ UNCHANGED <<now, polVars, repCache, repLock, repStarted, tbVars, NotPipe>>

\* reputationMiddleware answered 403 and never called next()
PipeBlocked(w) ==
  /\ pipe[w].stage = "rep"
  /\ rep[w].pc = "done" /\ rep[w].nextCalls = 0
  /\ pipe' = [pipe EXCEPT ![w].stage = "rejected", ![w].status = 403]
  /\ UNCHANGED <<now, pipeStarted, polVars, repVars, tbVars, NotPipe>>

\* app.ts line 102 and the route index: reputationMiddleware called next();
\* the /auth mount runs ipRateLimiterMiddleware on the client IP, and a
\* /health request that no health route answered matches no mount (404)
PipeRoute(w) ==
  /\ pipe[w].stage = "rep"
  /\ rep[w].nextCalls >= 1
  /\ tb[w].pc = "idle"
  /\ IF pipe[w].path = "/auth"
     THEN /\ pipe' = [pipe EXCEPT ![w].stage = "rl"]
          /\ TBEnter(w)
     ELSE /\ pipe' = [pipe EXCEPT ![w].stage = "rejected", ![w].status = 404]
          /\ UNCHANGED <<tb, tbStarted, tbOverlap>>
  /\ UNCHANGED <<now, pipeStarted, polVars, repVars, bucket, tbLog, tbWrites, NotPipe>>

\* the limiter decided: next() hands the request to the route handler
PipeHandler(w) ==
  /\ pipe[w].stage = "rl"
  /\ tb[w].pc = "idle" /\ tb[w].status # 0
  /\ pipe' = [pipe EXCEPT ![w].stage = IF tb[w].status = 200 THEN "handler"
                                        ELSE "rejected",
                          ![w].status = tb[w].status]
  /\ UNCHANGED <<now, pipeStarted, polVars, repVars, tbVars, NotPipe>>

\* ------------------------------------------------------------------------
\* The store's clock
\* ------------------------------------------------------------------------
\* the clock advances; the store drops every key whose TTL has run out
Tick ==
  /\ now < MaxTime
  /\ now' = now + 1
  /\ bucket' = IF Expired(bucket, now + 1) THEN NoBucket ELSE bucket
  /\ counter' = IF Expired(counter, now + 1) THEN NoCounter ELSE counter
  /\ UNCHANGED <<tb, tbLog, tbStarted, tbOverlap, tbWrites>>
  /\ repCache' = IF Expired(repCache, now + 1) THEN NoCache ELSE repCache
  /\ repLock' = IF Expired(repLock, now + 1) THEN NoLock ELSE repLock
  /\ UNCHANGED <<fw, fwLog, fwStarted, fwCreated>>
  /\ leaky' = IF Expired(leaky, now + 1) THEN NoLeaky ELSE leaky
  /\ UNCHANGED <<rep, repStarted, polVars, pipeVars, resVars, reloadVars>>
  /\ UNCHANGED <<acq, acqStarted, cfgVars, scVars>>

vars == <<now, tbVars, fwVars, repVars, polVars, pipeVars, resVars, reloadVars,
          acqVars, cfgVars, scVars>>

\* the other subsystems at rest
FWIdleInit ==
  /\ counter = NoCounter
  /\ fw = [w \in Workers |-> FwIdle]
  /\ fwLog = <<>>
  /\ fwStarted = 0
  /\ fwCreated = {}

TBIdleInit ==
  /\ bucket = NoBucket
  /\ tb = [w \in Workers |-> TbIdle]
  /\ tbLog = <<>>
  /\ tbStarted = 0
  /\ tbOverlap = FALSE
  /\ tbWrites = 0

RepIdleInit ==
  /\ repCache = NoCache
  /\ repLock = NoLock
  /\ rep = [w \in Workers |-> RepIdle]
  /\ repStarted = 0

PolIdleInit ==
  /\ ipWhitelist = {}
  /\ ipBlacklist = {}
  /\ cidrBlacklist = <<>>
  /\ countryBlocklist = {}
  /\ pol = [w \in Workers |-> PolIdle]
  /\ instance = FALSE

PipeIdleInit ==
  /\ pipe = [w \in Workers |-> PipeIdle]
  /\ pipeStarted = 0

ResIdleInit == request = NoRequest

CfgIdleInit ==
  /\ rlConfig = NoField
  /\ kb = NoKb
  /\ ak = [w \in Workers |-> AkIdle]
  /\ akStarted = 0
  /\ admin = NoAdmin
  /\ cfgOps = 0
  /\ got = NoGot

ScIdleInit ==
  /\ keyspace = [k \in BucketKeys |-> [present |-> FALSE, tokens |-> 0,
                                       lastRefillTime |-> 0]]
  /\ sc = [w \in Workers |-> ScIdle]
  /\ scStarted = 0

AcqIdleInit ==
  /\ leaky = NoLeaky
  /\ acq = [w \in Workers |-> AcqIdle]
  /\ acqStarted = 0

ReloadIdleInit ==
  /\ store = NoStore
  /\ proc = "idle"
  /\ reloads = <<>>
  /\ reloadCount = 0
  /\ installedBy = <<0, 0, 0, 0>>
  /\ pendingPublish = <<>>
  /\ published = 0
  /\ mutators = <<>>
  /\ mutations = 0
  /\ failures = 0

TBInit ==
  /\ now = 1
  /\ TBIdleInit
  /\ FWIdleInit
  /\ RepIdleInit
  /\ PolIdleInit
  /\ PipeIdleInit
  /\ AcqIdleInit
  /\ ScIdleInit
  /\ CfgIdleInit
  /\ ReloadIdleInit
  /\ ResIdleInit

TBNext ==
  \/ \E w \in Workers : TBBegin(w)
  \/ \E w \in Workers : TBHmget(w)
  \/ \E w \in Workers : TBHmset(w)
  \/ \E w \in Workers : TBExpire(w)
  \/ Tick

SpecTB == TBInit /\ [][TBNext]_vars

FWInit ==
  /\ now = 1
  /\ TBIdleInit
  /\ FWIdleInit
  /\ RepIdleInit
  /\ PolIdleInit
  /\ PipeIdleInit
  /\ AcqIdleInit
  /\ ScIdleInit
  /\ CfgIdleInit
  /\ ReloadIdleInit
  /\ ResIdleInit

FWNext ==
  \/ \E w \in Workers : FWBegin(w)
  \/ \E w \in Workers : FWIncr(w)
  \/ \E w \in Workers : FWExpire(w)
  \/ \E w \in Workers : FWTtl(w)
  \/ \E w \in Workers : FWFail(w)
  \/ Tick

SpecFW == FWInit /\ [][FWNext]_vars

\* cache entries the store may hold when the gate starts: none, result
\* arrays cached earlier, or a text that is not a JSON array
InitCacheValues ==
  {JSONStringify(<<>>), JSONStringify(<<NoScore, Score(49)>>),
   JSONStringify(<<Score(50), NoScore>>), Garbage, NonArray}

\* the remaining life of an entry cached earlier: about to run out, or long
InitCacheExpiry == {2, CacheTtlTicks}

RepInit ==
  /\ now = 1
  /\ TBIdleInit
  /\ FWIdleInit
  /\ repCache \in {NoCache} \cup
       {[present |-> TRUE, value |-> v, expireAt |-> e] :
          v \in InitCacheValues, e \in InitCacheExpiry}
  /\ repLock = NoLock
  /\ rep = [w \in Workers |-> RepIdle]
  /\ repStarted = 0
  /\ PolIdleInit
  /\ PipeIdleInit
  /\ AcqIdleInit
  /\ ScIdleInit
  /\ CfgIdleInit
  /\ ReloadIdleInit
  /\ ResIdleInit

RepNext ==
  \/ \E r \in Workers : RepBegin(r)
  \/ \E r \in Workers : RepGet(r)
  \/ \E r \in Workers : RepSetnx(r)
  \/ \E r \in Workers : RepCheck(r)
  \/ \E r \in Workers : RepSetex(r)
  \/ \E r \in Workers : RepDel(r)
  \/ \E r \in Workers : RepStoreFail(r)
  \/ Tick

SpecRep == RepInit /\ [][RepNext]_vars

\* the lists a bootstrap may have loaded from the store
CidrLists ==
  {<<>>, <<Cidr(<<10, 0, 0, 0>>, 8)>>, <<Cidr(<<203, 0, 113, 0>>, 24)>>,
   <<Cidr(<<10, 0, 0, 0>>, 8), Cidr(<<203, 0, 113, 0>>, 24)>>}
CountryLists == SUBSET {"RU", "us"}

PolInit ==
  /\ now = 1
  /\ TBIdleInit
  /\ FWIdleInit
  /\ RepIdleInit
  /\ PipeIdleInit
  /\ AcqIdleInit
  /\ ScIdleInit
  /\ CfgIdleInit
  /\ ReloadIdleInit
  /\ ResIdleInit
  /\ ipWhitelist \in SUBSET IPs
  /\ ipBlacklist \in SUBSET IPs
  /\ cidrBlacklist \in CidrLists
  /\ countryBlocklist \in CountryLists
  /\ pol = [w \in Workers |-> PolIdle]
  /\ instance = TRUE

PolNext ==
  \/ \E w \in Workers : GeoPolicy(w)

SpecPolicy == PolInit /\ [][PolNext]_vars

\* the resolver and the policy gate on one request, over the snapshots that
\* may hold the addresses of the request, and in a process whose policy
\* service was never bootstrapped (its lists are the empty initial fields)
GateInit ==
  /\ now = 1
  /\ TBIdleInit
  /\ FWIdleInit
  /\ RepIdleInit
  /\ PipeIdleInit
  /\ AcqIdleInit
  /\ ScIdleInit
  /\ CfgIdleInit
  /\ ReloadIdleInit
  /\ request \in Requests
  /\ instance \in BOOLEAN
  /\ ipWhitelist \in IF instance THEN SUBSET {PublicIp, PrivateIp} ELSE {{}}
  /\ ipBlacklist \in IF instance THEN SUBSET {PublicIp, PrivateIp} ELSE {{}}
  /\ cidrBlacklist \in IF instance THEN {<<>>, <<Cidr(<<10, 0, 0, 0>>, 8)>>}
                       ELSE {<<>>}
  /\ countryBlocklist \in IF instance THEN {{}, {"RU"}} ELSE {{}}
  /\ pol = [w \in Workers |-> PolIdle]

GateNext == \/ \E w \in Workers : GateRequest(w)

SpecGate == GateInit /\ [][GateNext]_vars

\* a replica starts against a store that may already hold policy entries:
\* the first load is in flight, the in-memory lists are still empty
ReloadInit ==
  /\ now = 1
  /\ TBIdleInit
  /\ FWIdleInit
  /\ RepIdleInit
  /\ PipeIdleInit
  /\ AcqIdleInit
  /\ ScIdleInit
  /\ CfgIdleInit
  /\ ResIdleInit
  /\ store \in [wl : SUBSET {<<1, 1, 1, 1>>}, bl : {{}},
                cidrs : {{}, {Cidr(<<10, 0, 0, 0>>, 8)}},
                countries : {{}, {"RU"}}]
  /\ proc = "boot"
  /\ reloads = <<[id |-> 1, src |-> "boot", got |-> <<>>, assigned |-> {},
                  instants |-> {store}]>>
  /\ reloadCount = 1
  /\ installedBy = <<0, 0, 0, 0>>
  /\ pendingPublish = <<>>
  /\ published = 0
  /\ mutators = <<>>
  /\ mutations = 0
  /\ failures = 0
  /\ ipWhitelist = {}
  /\ ipBlacklist = {}
  /\ cidrBlacklist = <<>>
  /\ countryBlocklist = {}
  /\ pol = [w \in Workers |-> PolIdle]
  /\ instance = TRUE

ReloadNext ==
  \/ AdminWrite
  \/ AdminPublish
  \/ AdminPublishFail
  \/ ReloadRead
  \/ ReloadInstall
  \/ ReloadFail
  \/ Subscribe

SpecReload == ReloadInit /\ [][ReloadNext]_vars

\* the mutators of the service next to the reloads of the same process
MutatorNext ==
  \/ MutatorWrite
  \/ MutatorApply
  \/ ReloadMessage
  \/ ReloadRead
  \/ ReloadInstall
  \/ Subscribe

SpecMutator == ReloadInit /\ [][MutatorNext]_vars

AcqInit ==
  /\ now = 1
  /\ TBIdleInit
  /\ FWIdleInit
  /\ RepIdleInit
  /\ PolIdleInit
  /\ PipeIdleInit
  /\ AcqIdleInit
  /\ ScIdleInit
  /\ CfgIdleInit
  /\ ReloadIdleInit
  /\ ResIdleInit

AcqNext ==
  \/ \E w \in Workers : AcqBegin(w)
  \/ \E w \in Workers : AcqGet(w)
  \/ \E w \in Workers : AcqSet(w)
  \/ \E w \in Workers : AcqFail(w)
  \/ \E w \in Workers : AcqEnd(w)
  \/ Tick

SpecAcquire == AcqInit /\ [][AcqNext]_vars

\* the members a stored object can have, and the fields the hash can hold
JsonMembers ==
  {JOmitted, JNull, JString, JNumber(0), JNumber(Capacity)}
StoredFields ==
  {NoField, NotJson}
    \cup {JsonField(c, JNumber(RefillRate)) : c \in JsonMembers}
    \cup {JsonField(JNumber(Capacity), r) : r \in JsonMembers}

CfgInit ==
  /\ now = 1
  /\ TBIdleInit
  /\ FWIdleInit
  /\ RepIdleInit
  /\ PolIdleInit
  /\ PipeIdleInit
  /\ AcqIdleInit
  /\ ScIdleInit
  /\ ReloadIdleInit
  /\ ResIdleInit
  /\ rlConfig \in StoredFields
  /\ kb = NoKb
  /\ ak = [w \in Workers |-> AkIdle]
  /\ akStarted = 0
  /\ admin = NoAdmin
  /\ cfgOps = 0
  /\ got = NoGot

CfgNext ==
  \/ ConfigUpdate
  \/ ConfigDelete
  \/ ConfigGet

SpecConfig == CfgInit /\ [][CfgNext]_vars

\* the api-key limiter while the configuration is being administered
ApiKeyNext ==
  \/ ConfigUpdate
  \/ ConfigDelete
  \/ \E w \in Workers : AkBegin(w)
  \/ \E w \in Workers : AkCapacity(w)
  \/ \E w \in Workers : AkRefill(w)
  \/ \E w \in Workers : AkHmget(w)
  \/ \E w \in Workers : AkHmset(w)
  \/ \E w \in Workers : AkFail(w)

SpecApiKey == CfgInit /\ [][ApiKeyNext]_vars

ScopeInit ==
  /\ now = 1
  /\ TBIdleInit
  /\ FWIdleInit
  /\ RepIdleInit
  /\ PolIdleInit
  /\ PipeIdleInit
  /\ AcqIdleInit
  /\ ScIdleInit
  /\ CfgIdleInit
  /\ ReloadIdleInit
  /\ ResIdleInit

ScopeNext ==
  \/ \E w \in Workers : ScBegin(w)
  \/ \E w \in Workers : ScHmget(w)
  \/ \E w \in Workers : ScHmset(w)
  \/ Tick

SpecScope == ScopeInit /\ [][ScopeNext]_vars

\* the pipeline behind a bootstrapped policy service whose lists may hold
\* the client address
PipeInit ==
  /\ now = 1
  /\ TBIdleInit
  /\ FWIdleInit
  /\ RepIdleInit
  /\ PipeIdleInit
  /\ AcqIdleInit
  /\ ScIdleInit
  /\ CfgIdleInit
  /\ ReloadIdleInit
  /\ ResIdleInit
  /\ ipWhitelist \in {{}, {PipeClientIp}}
  /\ ipBlacklist \in {{}, {PipeClientIp}}
  /\ cidrBlacklist = <<>>
  /\ countryBlocklist \in {{}, {"RU"}}
  /\ pol = [w \in Workers |-> PolIdle]
  /\ instance = TRUE

PipeNext ==
  \/ \E w \in Workers : PipeArrive(w)
  \/ \E w \in Workers : PipeBlocked(w)
  \/ \E w \in Workers : PipeRoute(w)
  \/ \E w \in Workers : PipeHandler(w)
  \/ \E r \in Workers : RepGet(r)
  \/ \E r \in Workers : RepSetnx(r)
  \/ \E r \in Workers : RepCheck(r)
  \/ \E r \in Workers : RepSetex(r)
  \/ \E r \in Workers : RepDel(r)
  \/ \E r \in Workers : RepStoreFail(r)
  \/ \E w \in Workers : TBHmget(w)
  \/ \E w \in Workers : TBHmset(w)
  \/ \E w \in Workers : TBExpire(w)

SpecPipe == PipeInit /\ [][PipeNext]_vars

\* ------------------------------------------------------------------------
\* Token-bucket properties
\* ------------------------------------------------------------------------
\* indices of the admitted steps in the decision log
TbPasses == {i \in 1..Len(tbLog) : tbLog[i].status = 200}

\* C1 (no free rides under contention): starting from a cold bucket, which
\* holds Capacity tokens, the number of admitted requests never exceeds
\* floor(Capacity + elapsed * RefillRate), and no two admitted requests
\* have read (and written back over) the same stored bucket state.
NoFreeRides ==
  /\ Cardinality(TbPasses) * OneToken
       <= Capacity * TicksPerSecond + (now - 1) * RefillRate
  /\ \A i, j \in TbPasses : i # j => tbLog[i].seen # tbLog[j].seen

\* C2 (token-bucket bound): the balance stored in the hash stays within
\* 0 .. capacity, whatever the interleaving of the steps.
TokenBound ==
  bucket.present =>
    /\ bucket.tokens >= 0
    /\ bucket.tokens <= Capacity * TicksPerSecond

\* a step that overlapped another one has drained the bucket to zero
TokenBoundWitness ==
  /\ bucket.present
  /\ bucket.tokens = 0
  /\ tbOverlap
  /\ Len(tbLog) >= 2

\* the decisions a cold bucket must give to Capacity + 1 back-to-back
\* requests: Capacity passes with Remaining Capacity-1 .. 0, then a 429
ExpectedStatus(i) == IF i <= Capacity THEN 200 ELSE 429
ExpectedRemaining(i) == IF i <= Capacity THEN Capacity - i ELSE 0

\* C3 (token-bucket exhaustion): Capacity + 1 sequential requests on a cold
\* bucket with no refill in between are answered pass (Remaining
\* Capacity-1 .. 0) Capacity times and then 429.
Exhaustion ==
  (~tbOverlap /\ now = 1 /\ Len(tbLog) = Capacity + 1) =>
    \A i \in 1..(Capacity + 1) :
      /\ tbLog[i].status = ExpectedStatus(i)
      /\ tbLog[i].remaining = ExpectedRemaining(i)


\* ------------------------------------------------------------------------
\* Fixed-window properties
\* ------------------------------------------------------------------------
WindowTicks == WindowSeconds * TicksPerSecond

\* admitted requests whose INCR fell into the window opened at clock value c
FwPassesIn(c) ==
  {i \in 1..Len(fwLog) :
     fwLog[i].status = 200 /\ fwLog[i].at >= c /\ fwLog[i].at < c + WindowTicks}

\* C4 (fixed-window bound): in the window that a first hit opens and that
\* lasts windowSeconds, the counter key stays in place and at most Limit
\* requests are admitted.
FixedWindowBound ==
  \A c \in fwCreated :
    /\ Cardinality(FwPassesIn(c)) <= Limit
    /\ now < c + WindowTicks => counter.present

\* a full window: Limit admissions and a rejection inside one window, with
\* the first hit's EXPIRE applied
FixedWindowBoundWitness ==
  \E c \in fwCreated :
    /\ Cardinality(FwPassesIn(c)) = Limit
    /\ \E i \in 1..Len(fwLog) :
         fwLog[i].status = 429 /\ fwLog[i].at >= c /\ fwLog[i].at < c + WindowTicks
    /\ counter.present /\ counter.expireAt # 0

\* C5 (fixed-window reset): a counter key that exists carries a TTL as soon
\* as no first-hit EXPIRE is pending, so that it is gone one window later.
CounterHasTtl ==
  (counter.present /\ \A w \in Workers : fw[w].pc # "expire")
    => counter.expireAt # 0

\* ------------------------------------------------------------------------
\* Reputation-gate properties
\* ------------------------------------------------------------------------
\* requests whose adapter fan-out is in flight
InFanout == {r \in Workers : rep[r].pc = "check"}

\* C6 (reputation single-flight): at no time are two adapter fan-outs for
\* the IP in flight, whatever the adapter calls take relative to the lock
\* TTL.
SingleFlight == Cardinality(InFanout) <= 1

\* C7 (reputation cache): a request whose cache read finds the entry is
\* decided from the cached text alone: 403 iff the text is a result array
\* with max(score) >= threshold, else passed, with no lock attempt, no
\* adapter call and no cache write; a request that missed the cache and took
\* the lock runs the fan-out.
CacheDecides ==
  \A r \in Workers :
    /\ (rep[r].pc = "done" /\ rep[r].hit) =>
         /\ ~rep[r].lockTried /\ ~rep[r].checked /\ ~rep[r].wroteCache
         /\ rep[r].sent403 <=>
              (rep[r].cached.kind = "array"
                 /\ maxScore(rep[r].cached.items) >= REPUTATION_BLOCK_THRESHOLD)
         /\ rep[r].nextCalls = (IF rep[r].sent403 THEN 0 ELSE 1)
    /\ (rep[r].pc \in {"setex", "del"}) => (rep[r].checked /\ ~rep[r].hit)

\* one request was refused from a cached score at the threshold, and after
\* the entry ran out another request missed the cache and fanned out
CacheDecidesWitness ==
  \E r, q \in Workers :
    /\ rep[r].pc = "done" /\ rep[r].hit /\ rep[r].sent403
    /\ rep[r].cached = JSONStringify(<<Score(50), NoScore>>)
    /\ rep[q].pc = "setex" /\ rep[q].checked

\* C8 (reputation fail-open): a request that met an unexpected error in the
\* gate has been passed downstream and has not been answered 4xx/5xx by the
\* gate.
FailOpen ==
  \A r \in Workers :
    (rep[r].pc = "done" /\ rep[r].err) =>
      (rep[r].nextCalls >= 1 /\ ~rep[r].sent403)

\* ------------------------------------------------------------------------
\* Policy-gate properties
\* ------------------------------------------------------------------------
\* C9 (allowlist dominance): a request whose client IP is in the IP
\* allowlist is passed by the policy gate, whatever the denylists hold.
AllowlistDominance ==
  \A w \in Workers :
    (pol[w].pc = "done" /\ pol[w].ip \in ipWhitelist) => pol[w].status = 0

\* an allowlisted address that is also denylisted by exact match, by CIDR
\* and by country has been passed
AllowlistDominanceWitness ==
  \E w \in Workers :
    /\ pol[w].pc = "done" /\ pol[w].status = 0
    /\ pol[w].ip \in ipWhitelist
    /\ pol[w].ip \in ipBlacklist
    /\ ipRangeCheck(pol[w].ip, cidrBlacklist)
    /\ pol[w].geo.found /\ isCountryBlocked(pol[w].geo.country)

\* C29 (lock contention never blocks): a request that missed the cache
\* and finds the single-flight lock held is passed downstream by that very
\* step, with no adapter call, no cache write and the lock left as it is.
LockContentionPasses ==
  [][\A r \in Workers :
       (rep[r].pc = "setnx" /\ repLock.present /\ rep'[r] # rep[r]) =>
         /\ rep'[r].pc = "done" /\ rep'[r].nextCalls = 1
         /\ ~rep'[r].checked /\ ~rep'[r].wroteCache
         /\ repLock' = repLock /\ repCache' = repCache]_vars

\* a request was passed while another one held the lock
LockContentionPassesWitness ==
  \E r \in Workers :
    /\ rep[r].pc = "done" /\ rep[r].lockTried /\ ~rep[r].err
    /\ ~rep[r].checked /\ rep[r].nextCalls = 1
    /\ repLock.present /\ repLock.owner # r

\* C33 (lock ownership on release): the lock a request deletes in its
\* finally block is the lock that request acquired, not one another
\* request acquired after the first had expired.
ReleaseOwnLock ==
  [][\A r \in Workers :
       (rep[r].pc = "del" /\ rep'[r].pc = "done"
          /\ repLock.present /\ ~repLock'.present)
         => repLock.owner = r]_vars

\* C34 (lock release): a request that acquired the lock and has finished,
\* its DEL executed, whether the cache write succeeded or threw, has left
\* no lock of its own behind; and every lock in the store carries an
\* expiry ahead of the clock.
LockReleased ==
  /\ \A r \in Workers :
       (rep[r].pc = "done" /\ rep[r].checked /\ ~rep[r].delFailed)
         => ~(repLock.present /\ repLock.owner = r)
  /\ repLock.present => repLock.expireAt > now

\* a request took the lock, its cache write threw, and it has finished
\* with the lock gone
LockReleasedWitness ==
  \E r \in Workers :
    /\ rep[r].pc = "done" /\ rep[r].checked /\ rep[r].err
    /\ ~rep[r].wroteCache /\ ~rep[r].delFailed
    /\ ~repLock.present

\* C36 (exactly one outcome): a finished request has either been passed
\* with one call of next() or been answered with one 403, never both and
\* never two calls of next(); no request in progress has more than that.
ExactlyOneOutcome ==
  \A r \in Workers :
    /\ rep[r].nextCalls + (IF rep[r].sent403 THEN 1 ELSE 0) <= 1
    /\ rep[r].pc = "done"
         => rep[r].nextCalls + (IF rep[r].sent403 THEN 1 ELSE 0) = 1

\* the verdict of a fan-out in which every adapter call failed
AllFailed == <<NoScore, NoScore>>

\* C37 (failed lookups cached as clean): when every adapter call failed,
\* the step that caches the verdict passes the request and leaves the
\* empty verdict in the cache with the full cache TTL; a request whose
\* cache read returns that entry is passed with no lock attempt and no
\* adapter call.
FailedLookupCachedClean ==
  /\ \A r \in Workers :
       (rep[r].pc = "del" /\ rep[r].wroteCache /\ rep[r].results = AllFailed)
         => rep[r].nextCalls = 1 /\ ~rep[r].sent403
  /\ \A r \in Workers :
       (rep[r].pc = "done" /\ rep[r].hit
          /\ rep[r].cached = JSONStringify(AllFailed))
         => /\ rep[r].nextCalls = 1 /\ ~rep[r].sent403
            /\ ~rep[r].lockTried /\ ~rep[r].checked
  /\ (repCache.present /\ repCache.value = JSONStringify(AllFailed))
       => repCache.expireAt \in {t + CacheTtlTicks : t \in 1..now}

\* one request cached the verdict of an all-failed fan-out, and a later
\* request read that entry and was passed
FailedLookupCachedCleanWitness ==
  \E r, q \in Workers :
    /\ r # q
    /\ rep[r].wroteCache /\ rep[r].results = AllFailed
    /\ rep[q].pc = "done" /\ rep[q].hit
    /\ rep[q].cached = JSONStringify(AllFailed) /\ rep[q].nextCalls = 1

\* ------------------------------------------------------------------------
\* Pipeline properties
\* ------------------------------------------------------------------------
\* C10 (allowlisted IP passes everything): a request that the policy gate
\* passed because its client IP is allowlisted is not refused by a later
\* stage, and no reputation work (cache read, lock attempt, adapter call)
\* and no rate-limit work (bucket read or write) is done for it.
AllowlistedSkipsWork ==
  \A w \in Workers :
    pipe[w].allowlisted =>
      /\ pipe[w].stage # "rl"
      /\ pipe[w].status \notin {403, 429}
      /\ pipe[w].stage = "rep" =>
           (~rep[w].read /\ ~rep[w].lockTried /\ ~rep[w].checked)

\* C28 (health-path bypass): a request to /health or /healthz, whether or
\* not a health route answers it, is never handed to the reputation gate
\* or to a rate limiter (and so has not passed through the policy gate).
HealthBypass ==
  \A w \in Workers :
    pipe[w].path \in {"/health", "/healthz"} => pipe[w].stage \notin {"rep", "rl"}

\* ------------------------------------------------------------------------
\* Resolver and policy-gate properties
\* ------------------------------------------------------------------------
\* C11 (missing client IP): a request for which the resolver derives no
\* address (no socket address, no usable header) is answered 400 by the
\* policy gate.
MissingIpRejected ==
  \A w \in Workers :
    (instance /\ pol[w].pc = "done" /\ getClientIp(request) = NoIp)
      => pol[w].status = 400

\* C12 (internal traffic): the policy gate passes every request whose
\* client IP is a private, loopback or link-local address, whatever the
\* denylists hold.
InternalTrafficPasses ==
  \A w \in Workers :
    (/\ instance
     /\ pol[w].pc = "done"
     /\ IsAddress(pol[w].ip)
     /\ range(pol[w].ip) \in {"private", "loopback", "linkLocal"})
      => pol[w].status = 0

\* C13 (denylist hit): a request whose client IP is not allowlisted and is
\* an exact member of the IP denylist or lies inside a CIDR of the CIDR
\* denylist is answered 403.
DenylistHit ==
  \A w \in Workers :
    (/\ pol[w].pc = "done"
     /\ pol[w].ip \notin ipWhitelist
     /\ \/ pol[w].ip \in ipBlacklist
        \/ /\ IsAddress(pol[w].ip)
           /\ \E i \in 1..Len(cidrBlacklist) : InCidr(pol[w].ip, cidrBlacklist[i]))
      => pol[w].status = 403

\* 10.0.5.7 arrived in x-forwarded-for through a trusted proxy while the
\* CIDR denylist holds 10.0.0.0/8 and no list names the address itself:
\* answered 403
DenylistHitWitness ==
  \E w \in Workers :
    /\ request = [remote |-> ProxyIp, cf |-> NoIp, xr |-> NoIp,
                  xff |-> <<PrivateIp>>]
    /\ cidrBlacklist = <<Cidr(<<10, 0, 0, 0>>, 8)>>
    /\ ipBlacklist = {} /\ ipWhitelist = {}
    /\ pol[w].pc = "done" /\ pol[w].ip = <<10, 0, 5, 7>>
    /\ pol[w].status = 403

\* C26 (ClientIP syntactic validity): the value the resolver returns, when
\* there is one, is a syntactically valid address; a header candidate that
\* does not parse is skipped.
ClientIpValid ==
  \A w \in Workers :
    (pol[w].pc = "done" /\ getClientIp(request) # NoIp)
      => IsAddress(getClientIp(request))

\* "public": a valid address outside the private, loopback, link-local,
\* unique-local, reserved and multicast ranges
PublicClass(ip) ==
  /\ IsAddress(ip)
  /\ range(ip) \notin {"private", "loopback", "linkLocal", "uniqueLocal",
                       "reserved", "multicast"}

\* the documented precedence: cf-connecting-ip behind a trusted proxy, then
\* x-real-ip, then x-forwarded-for, then the socket address
PrecedenceResult(req) ==
  IF isFromCloudflare(req.remote) /\ PublicClass(req.cf) THEN req.cf
  ELSE IF PublicClass(req.xr) THEN req.xr
  ELSE IF req.xff # <<>>
       THEN IF \E i \in 1..Len(req.xff) : PublicClass(req.xff[i])
            THEN req.xff[CHOOSE i \in 1..Len(req.xff) :
                           /\ PublicClass(req.xff[i])
                           /\ \A j \in 1..(i - 1) : ~PublicClass(req.xff[j])]
            ELSE req.xff[1]
       ELSE req.remote

\* every socket address and header value is an address or absent
AddressesOnly(req) ==
  /\ req.cf = NoIp \/ IsAddress(req.cf)
  /\ req.xr = NoIp \/ IsAddress(req.xr)
  /\ \A i \in 1..Len(req.xff) : IsAddress(req.xff[i])

\* C27 (IPResolver precedence and trust): for socket addresses and header
\* values that are addresses of any class or absent, the resolver returns
\* the documented choice; a multicast or reserved candidate is never taken
\* as public.
ResolverPrecedence ==
  \A w \in Workers :
    (pol[w].pc = "done" /\ AddressesOnly(request))
      => getClientIp(request) = PrecedenceResult(request)

\* ------------------------------------------------------------------------
\* Policy-reload properties
\* ------------------------------------------------------------------------
\* C14 (country-code normalization): every member of the snapshot's
\* country denylist is uppercase and is reported blocked, and
\* isCountryBlocked answers the same for "us" and "US".
CountryNormalized ==
  /\ \A c \in countryBlocklist : toUpperCase(c) = c /\ isCountryBlocked(c)
  /\ isCountryBlocked("us") = isCountryBlocked("US")

\* C15 (snapshot atomicity): at every point where a reader can run, the
\* four in-memory lists were assigned by the same reloadAll.
SnapshotAtomic ==
  \A i, j \in 1..4 : installedBy[i] = installedBy[j]

\* a reload triggered by a message has replaced the lists of the first
\* load while a further reload, holding different answers, is in flight
SnapshotAtomicWitness ==
  /\ installedBy = <<2, 2, 2, 2>>
  /\ reloads # <<>>
  /\ Len(Head(reloads).got) = 4
  /\ Head(reloads).got[1] # ipWhitelist

\* C16 (reload serialization): at most one reloadAll is executing at any
\* time in the process.
ReloadSerialized == Len(reloads) <= 1

\* C17 (eventual consistency): once a started replica is at rest (first
\* load done, subscription active, every mutation published, no reload in
\* flight, none failed), its snapshot equals the store's lists.
ConsistentAtRest ==
  (/\ proc = "subscribed"
   /\ reloads = <<>>
   /\ pendingPublish = <<>>
   /\ published = mutations
   /\ failures = 0)
    => /\ ipWhitelist = store.wl
       /\ ipBlacklist = store.bl
       /\ {cidrBlacklist[i] : i \in 1..Len(cidrBlacklist)} = store.cidrs
       /\ countryBlocklist = store.countries

\* C18 (reload failure): a reload started by an invalidation message whose
\* SMEMBERS fails changes none of the four lists and leaves the process
\* running.
ReloadFailureSurvived ==
  [][(failures' > failures /\ Head(reloads).src = "msg")
       => (UNCHANGED snapshotVars /\ proc' # "dead")]_vars

\* the four lists of store contents st, in the order reloadAll reads them
ListsOf(st) == <<st.wl, st.bl, st.cidrs, st.countries>>

\* C32 (atomic rebuild): the four answers a reloadAll installs are the
\* contents of the four store sets at one single instant of its reading.
SnapshotOneInstant ==
  \A i \in 1..Len(reloads) :
    Len(reloads[i].got) = 4
      => \E st \in reloads[i].instants : reloads[i].got = ListsOf(st)

\* membership in the in-memory list of the given name
InMemory(list, elem) ==
  CASE list = "wl" -> elem \in ipWhitelist
    [] list = "bl" -> elem \in ipBlacklist
    [] list = "cidrs" -> \E i \in 1..Len(cidrBlacklist) : cidrBlacklist[i] = elem
    [] list = "countries" -> elem \in countryBlocklist

\* C39 (mutator versus reload): once every mutator call and every
\* reloadAll of the process has completed, the in-memory list agrees with
\* the store set on each mutated element.
MutatorAgrees ==
  (/\ reloads = <<>>
   /\ \A i \in 1..Len(mutators) : mutators[i].done)
    => \A i \in 1..Len(mutators) :
         InMemory(mutators[i].list, mutators[i].elem)
           <=> mutators[i].elem \in store[mutators[i].list]

\* the pending mutations whose write changed the store
ChangedPending(q) == Cardinality({i \in 1..Len(q) : q[i]})

\* C35 (write, then publish): a 'reload' message is published only by a
\* mutation whose store write has completed, and a mutation that changed
\* the store ends only with its message published.
WriteThenPublish ==
  [][/\ published' > published => Len(pendingPublish') < Len(pendingPublish)
     /\ ChangedPending(pendingPublish') < ChangedPending(pendingPublish)
          => published' = published + 1]_vars

\* ------------------------------------------------------------------------
\* Failure-mode properties
\* ------------------------------------------------------------------------
\* C19 (policy gate fail-open): a request that no list refuses is passed
\* to the next stage; in particular when the geo lookup has no answer or
\* the policy service cannot be obtained, the gate does not answer 500.
PolicyGateFailOpen ==
  \A w \in Workers :
    (/\ pol[w].pc = "done"
     /\ \/ ~instance
        \/ /\ ~pol[w].geo.found
           /\ pol[w].ip \notin ipBlacklist
           /\ ~ipRangeCheck(pol[w].ip, cidrBlacklist))
      => pol[w].status = 0

\* C20 (rate limiter fail-closed): a rate-limiter step one of whose store
\* commands failed does not forward the request; it answers 500.
RateLimiterFailClosed ==
  \A w \in Workers :
    (acq[w].pc = "done" /\ acq[w].failed) => acq[w].status = 500

\* C21 (a rejected request consumes nothing): a token-bucket step that
\* answers 429 leaves tokens, lastRefillTime and the TTL of the hash as
\* they were.
RejectionWritesNothing ==
  [][(Len(tbLog') > Len(tbLog) /\ tbLog'[Len(tbLog')].status = 429)
       => bucket' = bucket]_vars

\* a request was rejected while the hash holds a spent balance
RejectionWritesNothingWitness ==
  /\ bucket.present
  /\ \E i \in 1..Len(tbLog) : tbLog[i].status = 429

\* a positive number
PositiveNumber(x) == x.t = "number" /\ x.v > 0

\* C22 (config defaults on absent or corrupt values): whatever the stored
\* field is, a finished api-key limiter step either ran with a positive
\* numeric capacity and refillRate or answered 500.
ConfigNeverUnlimited ==
  \A w \in Workers :
    ak[w].pc = "done" =>
      \/ ak[w].status = 500
      \/ PositiveNumber(ak[w].capacity) /\ PositiveNumber(ak[w].refillRate)

\* C23 (config round trip): a read that follows a successful update(c, r)
\* returns c, r and isDefault false; a read of an absent field or of a text
\* that is not JSON returns the defaults and isDefault true.
ConfigRoundTrip ==
  (got.read /\ got.ver = cfgOps) =>
    /\ (admin.op = "update" /\ admin.ok) =>
         /\ got.svc = [capacity |-> admin.capacity,
                       refillRate |-> admin.refillRate, isDefault |-> FALSE]
         /\ got.ctl = got.svc
    /\ rlConfig.kind \in {"absent", "text"} =>
         /\ got.svc = [capacity |-> Defaults.capacity,
                       refillRate |-> Defaults.refillRate, isDefault |-> TRUE]
         /\ got.ctl = [capacity |-> ControllerDefaults.capacity,
                       refillRate |-> ControllerDefaults.refillRate,
                       isDefault |-> TRUE]

\* a value written by update has been read back
ConfigRoundTripWitness ==
  /\ got.read /\ got.ver = cfgOps
  /\ admin.op = "update" /\ admin.ok
  /\ ~got.svc.isDefault

\* C24 (config is consulted on every request): an api-key limiter step
\* that starts after the last config operation has completed uses the
\* capacity and refillRate that operation left: the updated ones, or the
\* defaults after a delete.
ConfigConsulted ==
  \A w \in Workers :
    (ak[w].pc = "done" /\ ~ak[w].failed /\ ak[w].ver = cfgOps) =>
      /\ (admin.op = "update" /\ admin.ok) =>
           /\ ak[w].capacity = admin.capacity
           /\ ak[w].refillRate = admin.refillRate
      /\ admin.op = "delete" =>
           /\ ak[w].capacity = Defaults.capacity
           /\ ak[w].refillRate = Defaults.refillRate

\* a step ran on an updated capacity that differs from the default
ConfigConsultedWitness ==
  \E w \in Workers :
    /\ ak[w].pc = "done" /\ ~ak[w].failed /\ ak[w].ver = cfgOps
    /\ admin.op = "update" /\ admin.ok
    /\ ak[w].capacity = admin.capacity
    /\ admin.capacity # Defaults.capacity

LastRefillMonotonic ==
  [][(bucket.present /\ bucket'.present)
       => bucket'.lastRefillTime >= bucket.lastRefillTime]_vars

\* C38 (consistent config read): the capacity and the refillRate a step
\* works with are those of one version of the stored configuration, one
\* the field has held between the step's two reads.
ConfigReadConsistent ==
  \A w \in Workers :
    (ak[w].pc \in {"hmget", "done"} /\ ak[w].versions # {}) =>
      \E raw \in ak[w].versions :
        /\ ak[w].capacity = getCapacity(raw, Defaults)
        /\ ak[w].refillRate = getRefillRate(raw, Defaults)

\* ------------------------------------------------------------------------
\* Scoped-bucket properties
\* ------------------------------------------------------------------------
\* C31: a step of one limiter leaves every bucket of the other limiter
\* unchanged: an HMSET of the per-IP limiter changes no hash the per-API-key
\* limiter uses for any API key, and the other way round.
ScopeIsolation ==
  [][\A w \in Workers :
       (sc[w].pc = "hmset" /\ sc'[w].pc = "done")
         => \A other \in Scopes \ {sc[w].scope} : \A id \in ScopeIds(other) :
              keyspace'[BucketKey(other, id)] = keyspace[BucketKey(other, id)]]_vars

====
